---------------------------- MODULE Spec2Model ----------------------------
(***************************************************************************)
(* Model of the lottery synchronisation core:                              *)
(*   FirebaseCore          (src/unnamed/part_001)  remote store adapter    *)
(*   LotteryEvents         (src/lottery_events.js) event bus               *)
(*   LotteryStateManager   (src/lottery_events.js) state reconciler        *)
(* One client process is modelled in full; the other clients appear as     *)
(* writers to the shared remote store.  An async function is one action    *)
(* per stretch of code between two awaits.                                 *)
(***************************************************************************)
EXTENDS Integers, Sequences, FiniteSets, TLC

VARIABLES
    \* FirebaseCore and its environment
    monitoring,     \* init succeeded: the '.info/connected' listener is attached
    signalled,      \* the '.info/connected' listener has fired at least once
    isConnected,    \* FirebaseCore.isConnected
    localMode,      \* FirebaseCore.localMode
    localStorage,   \* window.localStorage: key -> JSON text (a partial function)
    remote,         \* the Realtime Database: top-level key -> value
    writes,         \* setData calls suspended at  await db.ref(path).set(data)
    reads,          \* getData calls suspended at  await db.ref(path).once('value')
    syncs,          \* syncLocalToCloud calls suspended at one of their awaits
    listeners,      \* FirebaseCore.listeners: listenerId -> subscription handle
    subs,           \* live subscriptions (database listeners, poll timers): handle -> record
    now,            \* Date.now()
    nOps,           \* operations begun so far: calls of the client, connectivity
                    \* signals, writes of other clients
    budget,         \* the number of operations a behaviour may begin
    \* LotteryEvents
    busCreated,     \* new LotteryEvents(firebaseCore) has run
    isListening,    \* LotteryEvents.isListening
    eventListenerId,\* LotteryEvents.eventListenerId
    lastEventId,    \* LotteryEvents.lastEventId
    eventHandlers,  \* LotteryEvents.eventHandlers: type -> sequence of handlers
    \* LotteryStateManager
    smCreated,      \* new LotteryStateManager(firebaseCore, lotteryEvents) has run
    state,          \* LotteryStateManager.state
    updates,        \* updateState calls suspended at  await setData('lotteryState', ..)
    hydrating,      \* LotteryStateManager.init suspended at  await getData('lotteryState')
    \* history
    lastUpdate,     \* the last updateState call: state before, argument, state after
    lastHydrate,    \* the hydration of init(): state before, saved state, state after
    published,      \* the local updateState calls made, the STATE_CHANGED events sent,
    usedIds,        \* the event ids generated so far
    lastSet,        \* the last setData call that returned
    lastGet,        \* the last getData call that returned
    rt,             \* a setData(p, v) followed by getData(p), undisturbed
    offline,        \* path -> last value passed to setData while disconnected
    lastSync,       \* the last syncLocalToCloud that ran to its end
    dispatched,     \* the event ids handleIncomingEvent let through, in order
    invoked,        \* the handler invocations, in order
    delivered,      \* what the events subscription has been notified of
    lastOther,      \* the last update of another client, and this client then
    raised,         \* the operations that have raised or rejected to their caller
    calls,          \* the invocations of the handlers given to onDataChange
    released,       \* the listener ids passed to offDataChange since they were returned
    cleaned,        \* FirebaseCore.cleanup() has run
    busCleaned,     \* LotteryEvents.cleanup() has run and on() has not since
    \* LotteryFirebaseBridge
    bridge,         \* the fields of the bridge, the buttons of its page and the
                    \* 'lotteryState' key the legacy engine keeps in localStorage
    bridgeLog,      \* the commands sent, the hooks run, the states published
    \* lottery_bridge_rtdb.js
    rtdb            \* initAdmin's lastCommandId and the commands it has replayed

coreVars == << monitoring, signalled, isConnected, localMode, localStorage, remote,
               writes, reads, syncs, nOps, budget, lastSet, lastGet, rt, offline,
               lastSync >>
subVars == << listeners, subs >>
busVars == << busCreated, isListening, eventListenerId, lastEventId, eventHandlers,
              usedIds, dispatched, invoked, delivered >>
subHist == << calls, released, cleaned >>
bridgeVars == << bridge, bridgeLog, rtdb >>
extraVars == << raised, subHist, busCleaned, bridgeVars >>
smVars == << smCreated, state, updates, hydrating, lastUpdate, lastHydrate,
            published, lastOther >>
stateVars == << smVars, extraVars >>
vars == << coreVars, subVars, now, busVars, stateVars >>

-----------------------------------------------------------------------------
(* Bounds of the model *)

MaxOps == 4         \* operations begun in a behaviour of the adapter
MaxBusOps == 5      \* operations begun in a behaviour of the event bus
MaxStateOps == 3
MaxLotteryOps == 3    \* operations begun in a behaviour of the state manager
MaxSubOps == 4      \* operations begun in a behaviour of the subscriptions
MaxBridgeOps == 4   \* operations begun in a behaviour of the bridge
MaxRtdbOps == 5     \* operations begun in a behaviour of the command bridge

-----------------------------------------------------------------------------
(* JavaScript values.  Every value is a record with a kind k. *)

Null == [k |-> "null"]
Doc(n) == [k |-> "doc", n |-> n]
None == [k |-> "none"]      \* "nothing yet" in the history variables

\* The values the client writes in this model.
InputValues == {Null, Doc(1), Doc(2)}

\* The values the other clients write in this model.
OtherValues == {Doc(3)}

\* JavaScript truthiness of a value:  if (events) ...,  if (employees) ...
Truthy(v) == v # Null

\* JSON.stringify / JSON.parse: the text of a JSON document and back.
JSONstringify(v) == [json |-> v]
JSONparse(text) == text.json

Range(f) == {f[x] : x \in DOMAIN f}
RemoveAt(s, k) == SubSeq(s, 1, k - 1) \o SubSeq(s, k + 1, Len(s))
Without(f, x) == [y \in DOMAIN f \ {x} |-> f[y]]

-----------------------------------------------------------------------------
(* Paths.  A path is the sequence of its '/'-separated segments. *)

RECURSIVE Join(_, _)
Join(path, sep) ==
    IF Len(path) = 1 THEN path[1]
    ELSE path[1] \o sep \o Join(Tail(path), sep)

\* `lottery_${path.replace(/\//g, '_')}`
LocalKey(path) == "lottery_" \o Join(path, "_")

saveToLocal(ls, path, data) ==
    (LocalKey(path) :> JSONstringify(data)) @@ ls

loadFromLocal(ls, path) ==
    IF LocalKey(path) \in DOMAIN ls THEN JSONparse(ls[LocalKey(path)]) ELSE Null

\* The top-level keys of the database.  "events" holds a collection.
RemoteKeys == {"employees", "prizes", "lotteryState", "winners", "events",
               "remoteLotteryEvent"}

Coll(items) == [k |-> "coll", items |-> items]
Items(v) == IF v.k = "coll" THEN v.items ELSE <<>>

\* db.ref(path).once('value') -> snapshot.val()
dbGet(db, path) ==
    IF Len(path) = 1 THEN db[path[1]]
    ELSE IF path[2] \in DOMAIN Items(db[path[1]]) THEN Items(db[path[1]])[path[2]]
    ELSE Null

\* Faulty variant of dbSet: a write below a collection replaces the collection.
dbSetReplace(db, path, data) ==
    IF Len(path) = 1 THEN [db EXCEPT ![path[1]] = data]
    ELSE [db EXCEPT ![path[1]] = IF data = Null THEN Null
                                 ELSE Coll(path[2] :> data)]

\* db.ref(path).set(data): a null value removes the node, and a collection
\* without children does not exist.
dbSet(db, path, data) ==
    IF Len(path) = 1 THEN [db EXCEPT ![path[1]] = data]
    ELSE LET items == IF data = Null THEN Without(Items(db[path[1]]), path[2])
                      ELSE (path[2] :> data) @@ Items(db[path[1]])
         IN [db EXCEPT ![path[1]] = IF DOMAIN items = {} THEN Null ELSE Coll(items)]

\* The paths the client reads and writes in the model of the adapter: one that
\* the resync pushes and one that it does not.
AdapterPaths == {<<"prizes">>, <<"winners">>}

\* The order in which syncLocalToCloud pushes.
SyncPaths == << <<"employees">>, <<"prizes">>, <<"lotteryState">> >>

-----------------------------------------------------------------------------
(* Events *)

FreshMs == 5000                 \* the freshness window of onEvent
TickMs == FreshMs               \* the clock advances in steps of one window
Times == {i * TickMs : i \in 0..(MaxOps + MaxBusOps + MaxStateOps)}

\* The random suffixes of event ids in this model.
Rands == {1, 2}

\* The suffixes of the model of the state manager, where the clock stands
\* still: the suffix drawn is the greatest one below those drawn before, so
\* that of two events the later one sorts first, as it does when time passes
\* between them.
MaxRand == MaxStateOps + 1

\* generateEventId at time ms with random suffix r.
generateEventId(ms, r) == "event_" \o ToString(ms) \o "_" \o ToString(r)

\* The event object of sendEvent.  rand repeats the suffix of the id, for
\* comparing keys.
Event(type, data, ms, r) ==
    [k |-> "event", type |-> type, data |-> data, timestamp |-> ms,
     id |-> generateEventId(ms, r), rand |-> r]

\* The order of the keys of two events of the collection that carry the same
\* time: the ids then differ in their suffix only.
KeyBefore(e, f) == e.rand < f.rand

\* Object.values(events).sort((a, b) => b.timestamp - a.timestamp)[0]:
\* the greatest timestamp and, the sort being stable, the first key among equals.
LatestEvent(items) ==
    CHOOSE e \in Range(items) :
        \A f \in Range(items) :
            \/ f = e
            \/ f.timestamp < e.timestamp
            \/ f.timestamp = e.timestamp /\ KeyBefore(e, f)

\* Faulty variant of isFresh: onEvent passes the latest event on whatever its age.
isFreshAlways(ms, event) == TRUE

\* Date.now() - latestEvent.timestamp < 5000
isFresh(ms, event) == ms - event.timestamp < FreshMs

\* Faulty variant of isDuplicate: handleIncomingEvent does not compare with lastEventId.
isDuplicateNever(event, lastId) == FALSE

\* event.id === this.lastEventId
isDuplicate(event, lastId) == event.id = lastId

\* The event types broadcast in this model, and the handlers registered:
\* h1 leaves the bus alone, once removes itself with off(type, once) when it
\* is invoked, and throws raises an exception when it is invoked.
BusTypes == {"START_LOTTERY"}
SelfRemoving == "once"
Throwing == "throws"
Handlers == {"h1", SelfRemoving, Throwing}

-----------------------------------------------------------------------------
(* FirebaseCore *)

\* Faulty variant of UseCloud: the test leaves out this.isConnected.
UseCloudUnlessLocalMode(connected, lmode) == ~lmode

\* The test  this.isConnected && !this.localMode  of setData, getData,
\* onDataChange and syncLocalToCloud.
UseCloud(connected, lmode) == connected /\ ~lmode

\* The raw localStorage item under the key of path (None when there is none).
CacheText(ls, path) ==
    IF LocalKey(path) \in DOMAIN ls THEN ls[LocalKey(path)] ELSE None

\* A suspended setData(path, data) loses its "undisturbed" mark when another
\* operation writes the same localStorage key.
Disturb(ws, key) ==
    [j \in 1..Len(ws) |->
        IF LocalKey(ws[j].path) = key THEN [ws[j] EXCEPT !.quiet = FALSE] ELSE ws[j]]

\* The round trip under observation ends when something else touches its path
\* or the connectivity changes.
RtAfterTouch(r, path) ==
    IF r # None /\ r.path = path THEN None ELSE r

\* Faulty variant of setDataReturn: the catch block also returns true.
setDataReturnAlwaysTrue(attempted, succeeded) == TRUE

\* The value setData returns: true from the try block, false from the catch.
setDataReturn(attempted, succeeded) == ~attempted \/ succeeded

\* Faulty variant of setDataCatch: the catch block rolls the local write back.
setDataCatchRollback(ls, path, data) == Without(ls, LocalKey(path))

\* The local cache after setData's catch block.
setDataCatch(ls, path, data) == saveToLocal(ls, path, data)

\* The history record of a setData call that returns.
SetRecord(path, data, attempted, ok, quiet, ls, db) ==
    [path |-> path, data |-> data, ret |-> setDataReturn(attempted, ok),
     attempted |-> attempted, quiet |-> quiet,
     cache |-> CacheText(ls, path), stored |-> dbGet(db, path)]

\* setData(path, data) as call number id, up to its return or its await:
\* the local cache, the suspended calls and the history afterwards.
setData(ls, ws, last, cloud, path, data, id) ==
    LET ls1 == saveToLocal(ls, path, data)
        ws1 == Disturb(ws, LocalKey(path))
    IN IF cloud
       THEN [ls |-> ls1, last |-> last, returned |-> FALSE,
             writes |-> Append(ws1, [id |-> id, path |-> path, data |-> data,
                                     quiet |-> TRUE])]
       ELSE [ls |-> ls1, writes |-> ws1, returned |-> TRUE,
             last |-> SetRecord(path, data, FALSE, FALSE, TRUE, ls1, remote)]

\* The client calls setData(path, data).
SetDataCall(path, data) ==
    /\ nOps < budget
    /\ nOps' = nOps + 1
    /\ LET res == setData(localStorage, writes, lastSet,
                          UseCloud(isConnected, localMode), path, data, nOps + 1)
       IN /\ localStorage' = res.ls
          /\ writes' = res.writes
          /\ lastSet' = res.last
          /\ rt' = [id |-> nOps + 1, path |-> path, data |-> data, got |-> None,
                    stage |-> IF res.returned THEN "setDone" ELSE "set",
                    setOk |-> res.returned]
    /\ offline' = IF isConnected THEN offline ELSE (path :> data) @@ offline
    /\ UNCHANGED << monitoring, signalled, isConnected, localMode, remote, reads,
                    syncs, budget, lastGet, lastSync >>
    /\ UNCHANGED << subVars, now, busVars >>
    /\ UNCHANGED stateVars

\* The remote write of a suspended setData settles: it is applied (ok) or
\* rejected, and setData returns.
SetDataDone(k, ok) ==
    /\ k \in 1..Len(writes)
    /\ LET w == writes[k]
           rest == RemoveAt(writes, k)
       IN /\ remote' = IF ok THEN dbSet(remote, w.path, w.data) ELSE remote
          /\ localStorage' = IF ok THEN localStorage
                             ELSE setDataCatch(localStorage, w.path, w.data)
          /\ writes' = IF ok THEN rest ELSE Disturb(rest, LocalKey(w.path))
          /\ lastSet' = SetRecord(w.path, w.data, TRUE, ok, w.quiet,
                                  localStorage', remote')
          /\ rt' = IF rt # None /\ rt.id = w.id /\ rt.stage = "set"
                   THEN [rt EXCEPT !.stage = "setDone", !.setOk = ok]
                   ELSE RtAfterTouch(rt, w.path)
    /\ UNCHANGED << monitoring, signalled, isConnected, localMode, reads, syncs,
                    nOps, budget, lastGet, offline, lastSync >>
    /\ UNCHANGED << subVars, now, busVars >>
    /\ UNCHANGED stateVars

\* Faulty variant of getDataResult: the cache is not refreshed after a remote read.
getDataResultNoRefresh(ls, path, attempted, ok, data) ==
    IF attempted /\ ok /\ data # Null
    THEN [ret |-> data, ls |-> ls]
    ELSE [ret |-> loadFromLocal(ls, path), ls |-> ls]

\* The value getData returns and the local cache it leaves, given the outcome
\* of the remote read (attempted, ok, data).
getDataResult(ls, path, attempted, ok, data) ==
    IF attempted /\ ok /\ data # Null
    THEN [ret |-> data, ls |-> saveToLocal(ls, path, data)]
    ELSE [ret |-> loadFromLocal(ls, path), ls |-> ls]

\* The history record of a getData call that returns.
GetRecord(path, attempted, ok, data, res) ==
    [path |-> path, ret |-> res.ret, attempted |-> attempted, ok |-> ok,
     remoteVal |-> data, cacheBefore |-> CacheText(localStorage, path),
     cacheAfter |-> CacheText(res.ls, path)]

\* The client calls getData(path): up to its return or its await.
GetDataCall(path) ==
    /\ nOps < budget
    /\ nOps' = nOps + 1
    /\ IF UseCloud(isConnected, localMode)
       THEN /\ reads' = Append(reads, [id |-> nOps + 1, path |-> path])
            /\ UNCHANGED << localStorage, lastGet >>
            /\ rt' = IF rt # None /\ rt.path = path /\ rt.stage = "setDone"
                     THEN [rt EXCEPT !.stage = "get", !.id = nOps + 1]
                     ELSE rt
       ELSE LET res == getDataResult(localStorage, path, FALSE, FALSE, None)
            IN /\ reads' = reads
               /\ localStorage' = res.ls
               /\ lastGet' = GetRecord(path, FALSE, FALSE, None, res)
               /\ rt' = IF rt # None /\ rt.path = path /\ rt.stage = "setDone"
                        THEN [rt EXCEPT !.stage = "done", !.got = res.ret]
                        ELSE rt
    /\ UNCHANGED << monitoring, signalled, isConnected, localMode, remote, writes,
                    syncs, budget, lastSet, offline, lastSync >>
    /\ UNCHANGED << subVars, now, busVars >>
    /\ UNCHANGED stateVars

\* The remote read of a suspended getData settles and getData returns.
GetDataDone(k, ok) ==
    /\ k \in 1..Len(reads)
    /\ LET r == reads[k]
           data == IF ok THEN dbGet(remote, r.path) ELSE None
           res == getDataResult(localStorage, r.path, TRUE, ok, data)
       IN /\ localStorage' = res.ls
          /\ reads' = RemoveAt(reads, k)
          /\ writes' = IF res.ls # localStorage
                       THEN Disturb(writes, LocalKey(r.path)) ELSE writes
          /\ lastGet' = GetRecord(r.path, TRUE, ok, data, res)
          /\ rt' = IF rt # None /\ rt.stage = "get" /\ rt.id = r.id
                   THEN [rt EXCEPT !.stage = "done", !.got = res.ret]
                   ELSE IF res.ls # localStorage THEN RtAfterTouch(rt, r.path)
                        ELSE rt
          /\ hydrating' = IF hydrating # None /\ hydrating.id = r.id
                          THEN [hydrating EXCEPT !.returned = TRUE, !.ret = res.ret]
                          ELSE hydrating
    /\ UNCHANGED << monitoring, signalled, isConnected, localMode, remote, syncs,
                    nOps, budget, lastSet, offline, lastSync >>
    /\ UNCHANGED << subVars, now, busVars, smCreated, state, updates, lastUpdate,
                    lastHydrate, published, lastOther, extraVars >>

\* The first index j >= i of SyncPaths whose cached value is truthy, or
\* Len(SyncPaths) + 1: syncLocalToCloud runs on without suspending over the
\* paths whose  if (value)  test fails.
RECURSIVE NextSync(_, _)
NextSync(ls, i) ==
    IF i > Len(SyncPaths) THEN i
    ELSE IF Truthy(loadFromLocal(ls, SyncPaths[i])) THEN i
    ELSE NextSync(ls, i + 1)

\* What the resync has achieved when it reaches its last line: for every path
\* written while disconnected, the value wanted and the remote value.
SyncRecord(want, db) ==
    [want |-> want, got |-> [p \in DOMAIN want |-> dbGet(db, p)]]

\* syncLocalToCloud from index i on, up to its next await or its end:
\* the suspended call, or None when it ran to its end.
syncLocalToCloud(ls, i, want) ==
    LET j == NextSync(ls, i)
    IN IF j > Len(SyncPaths) THEN None
       ELSE [i |-> j, data |-> loadFromLocal(ls, SyncPaths[j]), want |-> want]

\* localMode as the '.info/connected' handler sets it.
localModeOnSignal(connected) == ~connected

\* The '.info/connected' listener fires with value connected.  With a
\* LotteryEvents constructed, its connection callback broadcasts a
\* CONNECTION_STATUS event (with random id suffix r).
ConnectedSignal(connected, r) ==
    /\ monitoring
    /\ nOps < budget
    /\ ~signalled \/ connected # isConnected
    /\ nOps' = nOps + 1
    /\ signalled' = TRUE
    /\ isConnected' = connected
    /\ localMode' = localModeOnSignal(connected)
    /\ IF UseCloud(isConnected', localMode')
       THEN LET s == syncLocalToCloud(localStorage, 1, offline)
            IN /\ syncs' = IF s = None THEN syncs ELSE Append(syncs, s)
               /\ lastSync' = IF s = None THEN SyncRecord(offline, remote)
                              ELSE lastSync
       ELSE UNCHANGED << syncs, lastSync >>
    /\ IF busCreated /\ ~cleaned
       THEN LET event == Event("CONNECTION_STATUS", Null, now, r)
                res == setData(localStorage, writes, lastSet,
                               UseCloud(isConnected', localMode'),
                               <<"events", event.id>>, event, nOps + 1)
            IN /\ event.id \notin usedIds
               /\ usedIds' = usedIds \cup {event.id}
               /\ localStorage' = res.ls
               /\ writes' = res.writes
               /\ lastSet' = res.last
               /\ offline' = IF connected THEN <<>>
                             ELSE (<<"events", event.id>> :> event) @@ offline
       ELSE /\ offline' = IF connected THEN <<>> ELSE offline
            /\ UNCHANGED << localStorage, writes, lastSet, usedIds >>
    /\ rt' = None
    /\ UNCHANGED << monitoring, remote, reads, budget, lastGet >>
    /\ UNCHANGED << subVars, now, busCreated, isListening, eventListenerId,
                    lastEventId, eventHandlers, dispatched, invoked, delivered >>
    /\ UNCHANGED stateVars

\* One remote write of a suspended syncLocalToCloud settles.  A rejected write
\* throws into the catch block, which ends the resync.
SyncPushDone(k, ok) ==
    /\ k \in 1..Len(syncs)
    /\ LET s == syncs[k]
           rest == RemoveAt(syncs, k)
           db == dbSet(remote, SyncPaths[s.i], s.data)
           n == syncLocalToCloud(localStorage, s.i + 1, s.want)
       IN IF ok
          THEN /\ remote' = db
               /\ syncs' = IF n = None THEN rest ELSE [syncs EXCEPT ![k] = n]
               /\ lastSync' = IF n = None THEN SyncRecord(s.want, db) ELSE lastSync
               /\ rt' = RtAfterTouch(rt, SyncPaths[s.i])
          ELSE /\ syncs' = rest
               /\ UNCHANGED << remote, lastSync, rt >>
    /\ UNCHANGED << monitoring, signalled, isConnected, localMode, localStorage,
                    writes, reads, nOps, budget, lastSet, lastGet, offline >>
    /\ UNCHANGED << subVars, now, busVars >>
    /\ UNCHANGED stateVars

\* Another client writes data at path.
OtherClientWrite(path, data) ==
    /\ nOps < budget
    /\ nOps' = nOps + 1
    /\ remote' = dbSet(remote, path, data)
    /\ rt' = RtAfterTouch(rt, path)
    /\ UNCHANGED << monitoring, signalled, isConnected, localMode, localStorage,
                    writes, reads, syncs, budget, lastSet, lastGet, offline,
                    lastSync >>
    /\ UNCHANGED << subVars, now, busVars >>
    /\ UNCHANGED stateVars

-----------------------------------------------------------------------------
(* FirebaseCore: subscriptions *)

\* The callback the event bus subscribes with (FirebaseCore.onEvent's), and
\* the callbacks a client of the adapter gives onDataChange.
BusCallback == "onEvent"
Callbacks == {"cbA", "cbB"}

\* `${path}_${Date.now()}`
ListenerId(path, ms) == Join(path, "/") \o "_" \o ToString(ms)

\* onDataChange(path, callback): a database listener when the cloud is in use,
\* a poll timer otherwise.  seen is the value the database delivered last.
onDataChange(ls, ss, cloud, path, cb, ms, handle) ==
    [id |-> ListenerId(path, ms),
     listeners |-> (ListenerId(path, ms) :> handle) @@ ls,
     subs |-> (handle :> [path |-> path, cb |-> cb, seen |-> None,
                          id |-> ListenerId(path, ms),
                          type |-> IF cloud THEN "cloud" ELSE "local"]) @@ ss]

\* offDataChange(listenerId)
offDataChange(ls, ss, id) ==
    IF id \in DOMAIN ls
    THEN [listeners |-> Without(ls, id), subs |-> Without(ss, ls[id])]
    ELSE [listeners |-> ls, subs |-> ss]

-----------------------------------------------------------------------------
(* LotteryStateManager: the state and updateState *)

Prize(n) == [k |-> "prize", n |-> n]
Employee(n) == [k |-> "employee", n |-> n]

\* The state the constructor sets.
DefaultState ==
    [status |-> "waiting", currentPrize |-> Null, currentWinner |-> Null,
     winners |-> <<>>, availableEmployees |-> <<>>, completedPrizes |-> <<>>]

\* Faulty variant of Spread: the keys absent from b are reset instead of kept.
SpreadReplace(a, b) ==
    [f \in DOMAIN a \cup DOMAIN b |-> IF f \in DOMAIN b THEN b[f] ELSE DefaultState[f]]

\* { ...a, ...b }
Spread(a, b) ==
    [f \in DOMAIN a \cup DOMAIN b |-> IF f \in DOMAIN b THEN b[f] ELSE a[f]]

\* The handler init() registers for STATE_CHANGED:
\* (data) => this.updateState(data.state, false)
StateHandler == "stateManager"

\* Faulty variant of HandlerBroadcast: the handler lets updateState broadcast.
HandlerBroadcastDefault == TRUE

\* The broadcast argument the STATE_CHANGED handler passes to updateState.
HandlerBroadcast == FALSE

\* The history record of an updateState call.  prev is the argument of the
\* call before it when the state has not changed between the two; op and arg
\* name the operation that made the call, event the event a handler applied.
UpdateRecord(last, st, newState, merged) ==
    [before |-> st, partial |-> newState, after |-> merged,
     prev |-> IF last # None /\ last.after = st THEN last.partial ELSE None,
     op |-> "updateState", arg |-> None, event |-> ""]

\* updateState(newState, broadcast) up to its await, with its setData as call
\* number id: the state, the suspended updateState calls, and what setData
\* leaves.
updateState(st, ups, ls, ws, last, cloud, newState, broadcast, id) ==
    LET merged == Spread(st, newState)
        res == setData(ls, ws, last, cloud, <<"lotteryState">>, merged, id)
    IN [state |-> merged,
        updates |-> Append(ups, [id |-> id, broadcast |-> broadcast, oldState |-> st,
                                 saved |-> merged]),
        ls |-> res.ls, writes |-> res.writes, last |-> res.last,
        upd |-> UpdateRecord(lastUpdate, st, newState, merged), called |-> TRUE]

-----------------------------------------------------------------------------
(* LotteryEvents *)

NoId == ""      \* lastEventId and eventListenerId before they are set

Age(event) == now - event.timestamp

\* The handlers registered for a type, in registration order.
HandlersOf(type) ==
    IF type \in DOMAIN eventHandlers THEN eventHandlers[type] ELSE <<>>

\* handlers.indexOf(handler), counting from 1 (0 when absent).
indexOf(hs, handler) ==
    IF \E i \in 1..Len(hs) : hs[i] = handler
    THEN CHOOSE i \in 1..Len(hs) :
            hs[i] = handler /\ \A j \in 1..(i - 1) : hs[j] # handler
    ELSE 0

\* off(eventType, handler) on the array hs of the type:
\* if (index > -1) handlers.splice(index, 1).
off(hs, handler) ==
    LET index == indexOf(hs, handler)
    IN IF index > 0 THEN RemoveAt(hs, index) ELSE hs

\* The array of the type after handler h has run.
RunHandler(hs, h) == IF h = SelfRemoving THEN off(hs, h) ELSE hs

\* Faulty variant of handlerCatch: the handler is called outside a try block.
handlerCatchNone == FALSE

\* The call of a handler stands in  try { ... } catch (error) { ... }.
handlerCatch == TRUE

\* handlers.forEach(handler => handler(...)) from position i on: forEach
\* visits the positions of the live array in ascending order, up to its
\* current length.  The result is the array left, the handlers called, and
\* whether an exception has left the loop (which ends it).
RECURSIVE forEach(_, _, _)
forEach(hs, i, called) ==
    IF i > Len(hs) THEN [handlers |-> hs, called |-> called, escaped |-> FALSE]
    ELSE IF hs[i] = Throwing /\ ~handlerCatch
    THEN [handlers |-> hs, called |-> Append(called, hs[i]), escaped |-> TRUE]
    ELSE forEach(RunHandler(hs, hs[i]), i + 1, Append(called, hs[i]))

\* What a notification with the collection events adds to the history: the
\* ids it showed younger than the window, its latest event if younger than
\* the window (and whether an earlier notification had it as such), and its
\* latest event if older than the window while the type has a handler, and
\* its latest event if not older than the window.
Delivered(d, events) ==
    IF ~Truthy(events) THEN d
    ELSE LET latest == LatestEvent(Items(events))
             young == Age(latest) < FreshMs
             old == Age(latest) > FreshMs /\ HandlersOf(latest.type) # <<>>
         IN [fresh |-> d.fresh \cup
                          {e.id : e \in {f \in Range(Items(events)) : Age(f) < FreshMs}},
             latest |-> d.latest \cup (IF young THEN {latest.id} ELSE {}),
             again |-> d.again \cup
                          (IF young /\ latest.id \in d.latest THEN {latest.id} ELSE {}),
             stale |-> d.stale \cup (IF old THEN {latest.id} ELSE {}),
             within |-> d.within \cup
                           (IF Age(latest) <= FreshMs THEN {latest.id} ELSE {})]

\* The callback of FirebaseCore.onEvent, the callback startListening gives it
\* and handleIncomingEvent, called with the value events of the collection:
\* the fields of the bus, and what the handlers leave.  The handler of the
\* state manager calls updateState (with its setData as call number id).
onEvent(events, ls, ws, last, id) ==
    LET latest == LatestEvent(Items(events))
        pass == /\ Truthy(events)
                /\ isFresh(now, latest)
                /\ ~isDuplicate(latest, lastEventId)
        hs == HandlersOf(latest.type)
        each == forEach(hs, 1, <<>>)
        run == IF pass /\ StateHandler \in Range(each.called)
               THEN updateState(state, updates, ls, ws, last,
                                UseCloud(isConnected, localMode),
                                latest.data.state, HandlerBroadcast, id)
               ELSE [state |-> state, updates |-> updates, ls |-> ls,
                     writes |-> ws, last |-> last, upd |-> lastUpdate,
                     called |-> FALSE]
    IN [lastEventId |-> IF pass THEN latest.id ELSE lastEventId,
        dispatched |-> IF pass THEN Append(dispatched, latest.id) ELSE dispatched,
        invoked |-> IF pass
                    THEN invoked \o [i \in 1..Len(each.called) |->
                                       [handler |-> each.called[i], id |-> latest.id,
                                        type |-> latest.type, data |-> latest.data,
                                        age |-> Age(latest),
                                        n |-> Len(dispatched) + 1,
                                        registered |-> hs,
                                        escaped |-> each.escaped]]
                    ELSE invoked,
        eventHandlers |-> IF pass /\ hs # <<>>
                          THEN (latest.type :> each.handlers) @@ eventHandlers
                          ELSE eventHandlers,
        delivered |-> Delivered(delivered, events),
        state |-> run.state, updates |-> run.updates, ls |-> run.ls,
        writes |-> run.writes, last |-> run.last,
        upd |-> IF run.called
                THEN [run.upd EXCEPT !.op = StateHandler, !.event = latest.id]
                ELSE run.upd,
        called |-> run.called]

\* The subscriber's callback has run with result res: the fields it sets,
\* apart from the local cache and the suspended setData calls.
Notified(res) ==
    /\ lastEventId' = res.lastEventId
    /\ dispatched' = res.dispatched
    /\ invoked' = res.invoked
    /\ eventHandlers' = res.eventHandlers
    /\ delivered' = res.delivered
    /\ state' = res.state
    /\ updates' = res.updates
    /\ lastUpdate' = res.upd
    /\ lastSet' = res.last
    /\ nOps' = IF res.called THEN nOps + 1 ELSE nOps
    /\ offline' = IF res.called /\ ~isConnected
                  THEN (<<"lotteryState">> :> res.state) @@ offline ELSE offline
    /\ rt' = IF res.called THEN RtAfterTouch(rt, <<"lotteryState">>) ELSE rt

\* startListening(): subscribe to the events collection.
startListening ==
    LET res == onDataChange(listeners, subs, UseCloud(isConnected, localMode),
                            <<"events">>, BusCallback, now, nOps + 1)
    IN /\ listeners' = res.listeners
       /\ subs' = res.subs
       /\ eventListenerId' = res.id
       /\ isListening' = TRUE

\* new LotteryEvents(firebaseCore): init() registers the connection callback
\* and starts listening.
NewLotteryEvents ==
    /\ ~busCreated
    /\ nOps < budget
    /\ nOps' = nOps + 1
    /\ busCreated' = TRUE
    /\ startListening
    /\ UNCHANGED << monitoring, signalled, isConnected, localMode, localStorage,
                    remote, writes, reads, syncs, budget, lastSet, lastGet, rt,
                    offline, lastSync >>
    /\ UNCHANGED << now, lastEventId, eventHandlers, usedIds, dispatched, invoked,
                    delivered >>
    /\ UNCHANGED stateVars

\* The client calls startListening() again after a stopListening().
StartListening ==
    /\ busCreated
    /\ ~isListening
    /\ nOps < budget
    /\ nOps' = nOps + 1
    /\ startListening
    /\ UNCHANGED << monitoring, signalled, isConnected, localMode, localStorage,
                    remote, writes, reads, syncs, budget, lastSet, lastGet, rt,
                    offline, lastSync >>
    /\ UNCHANGED << now, busCreated, lastEventId, eventHandlers, usedIds,
                    dispatched, invoked, delivered >>
    /\ UNCHANGED stateVars

\* The client calls stopListening().
StopListening ==
    /\ busCreated
    /\ isListening
    /\ nOps < budget
    /\ nOps' = nOps + 1
    /\ LET res == IF eventListenerId # NoId
                  THEN offDataChange(listeners, subs, eventListenerId)
                  ELSE [listeners |-> listeners, subs |-> subs]
       IN /\ listeners' = res.listeners
          /\ subs' = res.subs
    /\ isListening' = FALSE
    /\ UNCHANGED << monitoring, signalled, isConnected, localMode, localStorage,
                    remote, writes, reads, syncs, budget, lastSet, lastGet, rt,
                    offline, lastSync >>
    /\ UNCHANGED << now, busCreated, eventListenerId, lastEventId, eventHandlers,
                    usedIds, dispatched, invoked, delivered >>
    /\ UNCHANGED stateVars

\* on(eventType, handler)
On(type, handler) ==
    /\ busCreated
    /\ nOps < budget
    /\ handler \notin Range(HandlersOf(type))
    /\ nOps' = nOps + 1
    /\ eventHandlers' = (type :> Append(HandlersOf(type), handler)) @@ eventHandlers
    /\ busCleaned' = FALSE
    /\ UNCHANGED << monitoring, signalled, isConnected, localMode, localStorage,
                    remote, writes, reads, syncs, budget, lastSet, lastGet, rt,
                    offline, lastSync >>
    /\ UNCHANGED << subVars, now, busCreated, isListening, eventListenerId,
                    lastEventId, usedIds, dispatched, invoked, delivered >>
    /\ UNCHANGED << smVars, raised, subHist, bridgeVars >>

\* off(eventType, handler), for a registered handler.
Off(type, handler) ==
    /\ busCreated
    /\ nOps < budget
    /\ handler \in Range(HandlersOf(type))
    /\ nOps' = nOps + 1
    /\ eventHandlers' = (type :> off(HandlersOf(type), handler)) @@ eventHandlers
    /\ UNCHANGED << monitoring, signalled, isConnected, localMode, localStorage,
                    remote, writes, reads, syncs, budget, lastSet, lastGet, rt,
                    offline, lastSync >>
    /\ UNCHANGED << subVars, now, busCreated, isListening, eventListenerId,
                    lastEventId, usedIds, dispatched, invoked, delivered >>
    /\ UNCHANGED stateVars

\* Faulty variant of clear: the handlers stay registered.
clearNothing(hs) == hs

\* this.eventHandlers.clear()
clear(hs) == <<>>

\* cleanup(): stopListening(), which returns at once when the bus is not
\* listening, then the handler map is emptied.
LotteryEventsCleanup ==
    /\ busCreated
    /\ nOps < budget
    /\ nOps' = nOps + 1
    /\ LET res == IF isListening /\ eventListenerId # NoId
                  THEN offDataChange(listeners, subs, eventListenerId)
                  ELSE [listeners |-> listeners, subs |-> subs]
       IN /\ listeners' = res.listeners
          /\ subs' = res.subs
    /\ isListening' = FALSE
    /\ eventHandlers' = clear(eventHandlers)
    /\ busCleaned' = TRUE
    /\ UNCHANGED << monitoring, signalled, isConnected, localMode, localStorage,
                    remote, writes, reads, syncs, budget, lastSet, lastGet, rt,
                    offline, lastSync >>
    /\ UNCHANGED << now, busCreated, eventListenerId, lastEventId, usedIds,
                    dispatched, invoked, delivered >>
    /\ UNCHANGED << smVars, raised, subHist, bridgeVars >>

\* What sendEvent gives its caller once its setData has returned with the
\* history record set:  return await this.setData(...).  setData has no
\* throwing path (its catch block returns false), so sendEvent never rejects.
sendEvent(set) == [threw |-> FALSE, value |-> set.ret]

\* What broadcastEvent returns once its sendEvent has settled:
\* try { await sendEvent(..); return true } catch { return false }.
broadcastEvent(sent) == IF sent.threw THEN FALSE ELSE TRUE

\* broadcastEvent(type, data) -> sendEvent -> setData('events/<id>', event),
\* up to setData's return or await: the adapter.
Send(type, data, r) ==
    /\ busCreated
    /\ nOps < budget
    /\ nOps' = nOps + 1
    /\ LET event == Event(type, data, now, r)
           res == setData(localStorage, writes, lastSet,
                          UseCloud(isConnected, localMode),
                          <<"events", event.id>>, event, nOps + 1)
       IN /\ event.id \notin usedIds
          /\ usedIds' = usedIds \cup {event.id}
          /\ localStorage' = res.ls
          /\ writes' = res.writes
          /\ lastSet' = res.last
          /\ offline' = IF isConnected THEN offline
                        ELSE (<<"events", event.id>> :> event) @@ offline
    /\ UNCHANGED << monitoring, signalled, isConnected, localMode, remote, reads,
                    syncs, budget, lastGet, rt, lastSync >>

\* broadcastEvent(type, data): the adapter and the bus.
Broadcast(type, data, r) ==
    /\ Send(type, data, r)
    /\ UNCHANGED << subVars, now, busCreated, isListening, eventListenerId,
                    lastEventId, eventHandlers, dispatched, invoked, delivered >>

\* The client calls broadcastEvent(type).
BroadcastEvent(type, r) == Broadcast(type, Null, r) /\ UNCHANGED stateVars

\* Another client broadcasts an event of the given type with the given data;
\* its write reaches the database.
OtherClientBroadcast(type, data, r) ==
    /\ nOps < budget
    /\ nOps' = nOps + 1
    /\ LET event == Event(type, data, now, r)
       IN /\ event.id \notin usedIds
          /\ usedIds' = usedIds \cup {event.id}
          /\ remote' = dbSet(remote, <<"events", event.id>>, event)
    /\ UNCHANGED << monitoring, signalled, isConnected, localMode, localStorage,
                    writes, reads, syncs, budget, lastSet, lastGet, rt, offline,
                    lastSync >>
    /\ UNCHANGED << subVars, now, busCreated, isListening, eventListenerId,
                    lastEventId, eventHandlers, dispatched, invoked, delivered >>
    /\ UNCHANGED stateVars

\* Another client broadcasts an event of the given type.
OtherClientEvent(type, r) == OtherClientBroadcast(type, Null, r)

\* The database notifies the listener of subscription h of the current value
\* at its path (once when the listener is attached, then on every change); the
\* listener calls the subscriber and mirrors a non-null value into the cache:
\* the adapter, the bus and the state manager.
CloudDelivery(h) ==
    /\ h \in DOMAIN subs
    /\ subs[h].type = "cloud"
    /\ subs[h].cb = BusCallback
    /\ isConnected
    /\ LET data == dbGet(remote, subs[h].path)
           res == onEvent(data, localStorage, writes, lastSet, nOps + 1)
       IN /\ data # subs[h].seen
          /\ subs' = [subs EXCEPT ![h].seen = data]
          /\ Notified(res)
          /\ localStorage' = IF data # Null
                             THEN saveToLocal(res.ls, subs[h].path, data)
                             ELSE res.ls
          /\ writes' = IF data # Null
                       THEN Disturb(res.writes, LocalKey(subs[h].path))
                       ELSE res.writes
    /\ UNCHANGED << monitoring, signalled, isConnected, localMode, remote, reads,
                    syncs, budget, lastGet, lastSync >>
    /\ UNCHANGED << listeners, now, busCreated, isListening, eventListenerId,
                    usedIds, smCreated, hydrating, lastHydrate,
                    published, lastOther >>

\* A notification on a page whose handlers are those of the bus and of the
\* state manager.
CloudNotify(h) == CloudDelivery(h) /\ UNCHANGED extraVars

\* The poll timer of subscription h fires: the subscriber is called with the
\* cached value at its path.
PollDelivery(h) ==
    /\ h \in DOMAIN subs
    /\ subs[h].type = "local"
    /\ subs[h].cb = BusCallback
    /\ LET res == onEvent(loadFromLocal(localStorage, subs[h].path),
                          localStorage, writes, lastSet, nOps + 1)
       IN /\ Notified(res)
          /\ localStorage' = res.ls
          /\ writes' = res.writes
    /\ UNCHANGED << monitoring, signalled, isConnected, localMode, remote, reads,
                    syncs, budget, lastGet, lastSync >>
    /\ UNCHANGED << subVars, now, busCreated, isListening, eventListenerId,
                    usedIds, smCreated, hydrating, lastHydrate,
                    published, lastOther >>

\* A polling tick on a page whose handlers are those of the bus and of the
\* state manager.
LocalPoll(h) == PollDelivery(h) /\ UNCHANGED extraVars

\* The client of the adapter subscribes: onDataChange(path, cb).
OnDataChange(path, cb) ==
    /\ nOps < budget
    /\ ~cleaned
    /\ \A c \in calls : c.cb # cb
    /\ \A h \in DOMAIN subs : subs[h].cb # cb
    /\ nOps' = nOps + 1
    /\ LET res == onDataChange(listeners, subs, UseCloud(isConnected, localMode),
                               path, cb, now, nOps + 1)
       IN /\ listeners' = res.listeners
          /\ subs' = res.subs
          /\ released' = released \ {res.id}
    /\ UNCHANGED << monitoring, signalled, isConnected, localMode, localStorage,
                    remote, writes, reads, syncs, budget, lastSet, lastGet, rt,
                    offline, lastSync >>
    /\ UNCHANGED << now, busVars, smVars, raised, calls, cleaned, busCleaned,
                    bridgeVars >>

\* The client calls offDataChange(id) with an id that onDataChange returned.
OffDataChange(id) ==
    /\ nOps < budget
    /\ nOps' = nOps + 1
    /\ LET res == offDataChange(listeners, subs, id)
       IN /\ listeners' = res.listeners
          /\ subs' = res.subs
    /\ released' = released \cup {id}
    /\ UNCHANGED << monitoring, signalled, isConnected, localMode, localStorage,
                    remote, writes, reads, syncs, budget, lastSet, lastGet, rt,
                    offline, lastSync >>
    /\ UNCHANGED << now, busVars, smVars, raised, calls, cleaned, busCleaned,
                    bridgeVars >>

\* The listener of onDataChange after its callback:
\* if (data !== null) this.saveToLocal(path, data).
mirror(ls, path, data) == IF data # Null THEN saveToLocal(ls, path, data) ELSE ls

\* The record of an invocation of a client's handler: the value and the
\* source it was called with, whether the id of its subscription had been
\* passed to offDataChange, whether cleanup() had run, and whether the cache
\* entry of the path equals the value once the listener has returned.
Call(h, data, source, ls) ==
    [cb |-> subs[h].cb, data |-> data, source |-> source,
     off |-> subs[h].id \in released, cleaned |-> cleaned,
     mirrored |-> loadFromLocal(ls, subs[h].path) = data]

\* The database notifies the listener of a client's subscription h of the
\* current value at its path: the handler is called, then the value mirrored.
CloudNotifyHandler(h) ==
    /\ h \in DOMAIN subs
    /\ subs[h].type = "cloud"
    /\ subs[h].cb \in Callbacks
    /\ isConnected
    /\ LET data == dbGet(remote, subs[h].path)
       IN /\ data # subs[h].seen
          /\ subs' = [subs EXCEPT ![h].seen = data]
          /\ localStorage' = mirror(localStorage, subs[h].path, data)
          /\ writes' = IF data # Null
                       THEN Disturb(writes, LocalKey(subs[h].path))
                       ELSE writes
          /\ rt' = IF data # Null THEN RtAfterTouch(rt, subs[h].path) ELSE rt
          /\ calls' = calls \cup {Call(h, data, "cloud", localStorage')}
    /\ UNCHANGED << monitoring, signalled, isConnected, localMode, remote, reads,
                    syncs, nOps, budget, lastSet, lastGet, offline, lastSync >>
    /\ UNCHANGED << listeners, now, busVars, smVars, raised, released, cleaned,
                    busCleaned, bridgeVars >>

\* The poll timer of a client's subscription h fires: the handler is called
\* with the cached value at its path.
LocalPollHandler(h) ==
    /\ h \in DOMAIN subs
    /\ subs[h].type = "local"
    /\ subs[h].cb \in Callbacks
    /\ calls' = calls \cup {Call(h, loadFromLocal(localStorage, subs[h].path),
                                 "local", localStorage)}
    /\ UNCHANGED << coreVars, subVars, now, busVars, smVars, raised, released,
                    cleaned, busCleaned, bridgeVars >>

\* FirebaseCore.cleanup(): offDataChange for every entry of the listeners
\* map, then the map and the connection callbacks are emptied.
RECURSIVE offAll(_, _, _)
offAll(ls, ss, ids) ==
    IF ids = {} THEN [listeners |-> ls, subs |-> ss]
    ELSE LET id == CHOOSE x \in ids : TRUE
             res == offDataChange(ls, ss, id)
         IN offAll(res.listeners, res.subs, ids \ {id})

Cleanup ==
    /\ nOps < budget
    /\ ~cleaned
    /\ nOps' = nOps + 1
    /\ LET res == offAll(listeners, subs, DOMAIN listeners)
       IN /\ listeners' = <<>>
          /\ subs' = res.subs
    /\ cleaned' = TRUE
    /\ UNCHANGED << monitoring, signalled, isConnected, localMode, localStorage,
                    remote, writes, reads, syncs, budget, lastSet, lastGet, rt,
                    offline, lastSync >>
    /\ UNCHANGED << now, busVars, smVars, raised, calls, released, busCleaned,
                    bridgeVars >>

-----------------------------------------------------------------------------
(* LotteryFirebaseBridge *)

\* The command events, the handlers setupAdminBridge registers for them and
\* the handler setupMobileBridge registers for STATE_CHANGED.
BridgeTypes == {"START_LOTTERY", "STOP_LOTTERY", "RESET_LOTTERY"}
AdminHandler(type) ==
    CASE type = "START_LOTTERY" -> "executeRemoteStart"
      [] type = "STOP_LOTTERY" -> "executeRemoteStop"
      [] type = "RESET_LOTTERY" -> "executeRemoteReset"
AdminHandlers == {AdminHandler(type) : type \in BridgeTypes}
MobileHandler == "updateMobileUI"

\* The data of the command events.
CommandData(type, prize) ==
    IF type = "START_LOTTERY" THEN [prize |-> prize, timestamp |-> now]
    ELSE [timestamp |-> now]

\* The legacy engine, outside this code: what it writes to the key
\* 'lotteryState' of localStorage when the button that executeRemoteStart,
\* executeRemoteStop or executeRemoteReset clicks is clicked, and when the
\* operator of the admin page starts a round there.
EngineState(handler) ==
    CASE handler = "executeRemoteStart" ->
            [status |-> "rolling", currentPrize |-> Prize(1)]
      [] handler = "executeRemoteStop" ->
            [status |-> "showing", currentPrize |-> Prize(1),
             currentWinner |-> Employee(1)]
      [] handler = "executeRemoteReset" ->
            [status |-> "waiting", currentPrize |-> Null, currentWinner |-> Null]
EngineLocal == [status |-> "rolling", currentPrize |-> Prize(2)]

\* The bridge after init(): its page type and isRemoteCommand, lastState of
\* monitorLocalStateChanges, the value of the key 'lotteryState' of
\* localStorage (engine) and who caused it, the status the buttons of the
\* mobile page show, the setData call a sendRemoteStart waits for, whether
\* the page has the prize select element, and whether the timeout that
\* clears isRemoteCommand is pending.
NewBridge(pageType, select) ==
    [pageType |-> pageType, isRemoteCommand |-> FALSE, lastState |-> None,
     engine |-> None, origin |-> "none", buttons |-> "initial", starting |-> 0,
     prizeSelect |-> select, timer |-> FALSE]

\* init() after initLotterySystem() has returned the system:
\* setupPageSpecificFeatures(), then notifySystemReady(pageType).  (The
\* handler of the mobile page sets the buttons from a STATE_CHANGED event;
\* no client of this model sends one to the mobile page.)
SetupPage(pageType, select, r) ==
    /\ bridge = None
    /\ smCreated
    /\ Send("SYSTEM_READY", [pageType |-> pageType, timestamp |-> now], r)
    /\ bridge' = NewBridge(pageType, select)
    /\ bridgeLog' = [sent |-> <<>>, hooks |-> <<>>, published |-> <<>>]
    /\ eventHandlers' =
          IF pageType = "admin"
          THEN [type \in BridgeTypes |-> Append(HandlersOf(type), AdminHandler(type))]
               @@ eventHandlers
          ELSE ("STATE_CHANGED" :> Append(HandlersOf("STATE_CHANGED"), MobileHandler))
               @@ eventHandlers
    /\ busCleaned' = FALSE
    /\ UNCHANGED << subVars, now, busCreated, isListening, eventListenerId,
                    lastEventId, dispatched, invoked, delivered >>
    /\ UNCHANGED << smVars, raised, subHist, rtdb >>

\* The buttons updateButtonStates(status) leaves enabled.
Enabled(status) ==
    CASE status = "waiting" -> {"start"}
      [] status = "rolling" -> {"stop", "forceStop"}
      [] status = "showing" -> {"forceStop"}
      [] OTHER -> {"start", "stop", "forceStop"}

\* The event type each function of the mobile page broadcasts, and the
\* status it gives updateButtonStates.
SentType(intent) ==
    CASE intent = "start" -> "START_LOTTERY"
      [] intent = "stop" -> "STOP_LOTTERY"
      [] intent = "forceStop" -> "STOP_LOTTERY"
ButtonsAfter(intent) ==
    CASE intent = "start" -> "rolling"
      [] intent = "stop" -> "showing"
      [] intent = "forceStop" -> "waiting"

\* The three functions alert only in the catch block of sendRemoteStart,
\* which a rejected promise of startLottery enters; that promise is the one
\* of broadcastEvent, which settles with true or false.
alerted(intent, sent) ==
    /\ intent = "start"
    /\ broadcastEvent(sent) \notin BOOLEAN

\* The operator of the mobile page presses an enabled button with a prize
\* selected: sendRemoteStart(), sendRemoteStop() or sendRemoteForceStop().
\* The operator is informed when the function alerts, whichever value the
\* setData of the broadcast returns.
\* sendRemoteStart updates the buttons after its await (it is modelled as the
\* async function its await needs).
SendRemote(intent, prize, r) ==
    /\ bridge # None
    /\ bridge.pageType = "mobile"
    /\ intent \in Enabled(bridge.buttons)
    /\ bridge.starting = 0
    /\ Broadcast(SentType(intent), CommandData(SentType(intent), prize), r)
    /\ LET waits == intent = "start" /\ UseCloud(isConnected, localMode)
       IN bridge' = [bridge EXCEPT
                        !.buttons = IF waits THEN @ ELSE ButtonsAfter(intent),
                        !.starting = IF waits THEN nOps + 1 ELSE 0]
    /\ bridgeLog' = [bridgeLog EXCEPT !.sent = Append(@,
                        [intent |-> intent, type |-> SentType(intent),
                         data |-> CommandData(SentType(intent), prize),
                         selected |-> prize,
                         cloud |-> UseCloud(isConnected, localMode),
                         informed |-> \E ret \in BOOLEAN :
                                        alerted(intent, sendEvent([ret |-> ret]))])]
    /\ UNCHANGED << smVars, raised, subHist, busCleaned, rtdb >>

\* sendRemoteStart resumes after its await: updateButtonStates('rolling').
SendRemoteStartResume ==
    /\ bridge # None
    /\ bridge.starting # 0
    /\ \A j \in 1..Len(writes) : writes[j].id # bridge.starting
    /\ bridge' = [bridge EXCEPT !.buttons = ButtonsAfter("start"), !.starting = 0]
    /\ UNCHANGED << coreVars, subVars, now, busVars, smVars, raised, subHist,
                    busCleaned, bridgeLog, rtdb >>

\* executeRemoteStart(data) evaluates  prizeSelect && data.prize  after it
\* has set the flag: with the element on the page and an event that carries
\* no data, the property access throws (into the catch block of
\* handleIncomingEvent).  executeRemoteStop and executeRemoteReset read no
\* data; an exception of the engine's click handler does not leave click().
executeRemoteThrows(handler, select, data) ==
    /\ handler = "executeRemoteStart"
    /\ select
    /\ data = Null

\* The handlers of the bridge among the invocations a notification has added
\* to the history: a command handler returns at once while isRemoteCommand is
\* set; otherwise it sets the flag, clicks the button of the engine and
\* schedules the timeout that clears the flag, unless it throws before.
HandlersRun ==
    LET new == SubSeq(invoked', Len(invoked) + 1, Len(invoked'))
        cmds == {i \in 1..Len(new) : new[i].handler \in AdminHandlers}
    IN IF bridge = None \/ cmds = {}
       THEN UNCHANGED bridgeVars
       ELSE LET c == new[CHOOSE i \in cmds : TRUE]
            IN IF bridge.isRemoteCommand
               THEN /\ bridge' = bridge
                    /\ bridgeLog' = [bridgeLog EXCEPT !.hooks = Append(@,
                                        [type |-> c.type, hook |-> "none"])]
               ELSE /\ bridge' =
                          IF executeRemoteThrows(c.handler, bridge.prizeSelect, c.data)
                          THEN [bridge EXCEPT !.isRemoteCommand = TRUE]
                          ELSE [bridge EXCEPT
                                   !.isRemoteCommand = TRUE,
                                   !.engine = JSONstringify(EngineState(c.handler)),
                                   !.origin = "remote",
                                   !.timer = TRUE]
                    /\ bridgeLog' = [bridgeLog EXCEPT !.hooks = Append(@,
                                        [type |-> c.type, hook |-> c.handler])]

\* A notification or a polling tick of the events subscription on the page
\* of the bridge.
BridgeNotify(h) ==
    /\ CloudDelivery(h)
    /\ HandlersRun
    /\ UNCHANGED << raised, subHist, busCleaned, rtdb >>
BridgePoll(h) ==
    /\ PollDelivery(h)
    /\ HandlersRun
    /\ UNCHANGED << raised, subHist, busCleaned, rtdb >>

\* setTimeout(() => { this.isRemoteCommand = false; }, 100)
FlagDelayMs == 100
FlagTimeout ==
    /\ bridge # None
    /\ bridge.timer
    /\ bridge' = [bridge EXCEPT !.isRemoteCommand = FALSE, !.timer = FALSE]
    /\ UNCHANGED << coreVars, subVars, now, busVars, smVars, raised, subHist,
                    busCleaned, bridgeLog, rtdb >>

\* The operator of the admin page starts a round there: the engine writes
\* its state.
LocalEngineWrite ==
    /\ bridge # None
    /\ bridge.pageType = "admin"
    /\ nOps < budget
    /\ nOps' = nOps + 1
    /\ bridge' = [bridge EXCEPT !.engine = JSONstringify(EngineLocal),
                                !.origin = "local"]
    /\ UNCHANGED << monitoring, signalled, isConnected, localMode, localStorage,
                    remote, writes, reads, syncs, budget, lastSet, lastGet, rt,
                    offline, lastSync >>
    /\ UNCHANGED << subVars, now, busVars, smVars, raised, subHist, busCleaned,
                    bridgeLog, rtdb >>

\* state.currentWinner && state.status === 'showing'
Announces(st) ==
    /\ "currentWinner" \in DOMAIN st
    /\ st.currentWinner # Null
    /\ st.status = "showing"

\* The timer of monitorLocalStateChanges fires, every MonitorMs: when the
\* key 'lotteryState' differs from lastState and isRemoteCommand is not set,
\* the state is given to stateManager.updateState (up to its await) and, with
\* a winner showing, announceResult broadcasts it.
MonitorMs == 500
MonitorTick(r) ==
    /\ bridge # None
    /\ bridge.pageType = "admin"
    /\ bridge.engine # bridge.lastState
    /\ ~bridge.isRemoteCommand
    /\ nOps < budget
    /\ LET st == JSONparse(bridge.engine)
           cloud == UseCloud(isConnected, localMode)
           u == updateState(state, updates, localStorage, writes, lastSet, cloud,
                            st, TRUE, nOps + 1)
           event == Event("LOTTERY_RESULT",
                          [winner |-> st.currentWinner, prize |-> st.currentPrize,
                           timestamp |-> now], now, r)
           a == setData(u.ls, u.writes, u.last, cloud, <<"events", event.id>>,
                        event, nOps + 2)
       IN /\ state' = u.state
          /\ updates' = u.updates
          /\ lastUpdate' = [u.upd EXCEPT !.op = "monitor"]
          /\ published' = [published EXCEPT !.calls = @ + 1]
          /\ IF Announces(st)
             THEN /\ event.id \notin usedIds
                  /\ usedIds' = usedIds \cup {event.id}
                  /\ localStorage' = a.ls
                  /\ writes' = a.writes
                  /\ lastSet' = a.last
                  /\ nOps' = nOps + 2
                  /\ budget' = budget + 1
                  /\ offline' = IF isConnected THEN offline
                                ELSE (<<"events", event.id>> :> event)
                                     @@ (<<"lotteryState">> :> u.state) @@ offline
             ELSE /\ localStorage' = u.ls
                  /\ writes' = u.writes
                  /\ lastSet' = u.last
                  /\ nOps' = nOps + 1
                  /\ offline' = IF isConnected THEN offline
                                ELSE (<<"lotteryState">> :> u.state) @@ offline
                  /\ UNCHANGED << usedIds, budget >>
    /\ rt' = RtAfterTouch(rt, <<"lotteryState">>)
    /\ bridge' = [bridge EXCEPT !.lastState = bridge.engine]
    /\ bridgeLog' = [bridgeLog EXCEPT !.published = Append(@,
                        [text |-> bridge.engine, origin |-> bridge.origin])]
    /\ UNCHANGED << monitoring, signalled, isConnected, localMode, remote, reads,
                    syncs, lastGet, lastSync >>
    /\ UNCHANGED << subVars, now, busCreated, isListening, eventListenerId,
                    lastEventId, eventHandlers, dispatched, invoked, delivered >>
    /\ UNCHANGED << smCreated, hydrating, lastHydrate, lastOther, raised, subHist,
                    busCleaned, rtdb >>

\* Time passes: a full freshness window.
Tick ==
    /\ nOps < budget
    /\ nOps' = nOps + 1
    /\ now' = now + TickMs
    /\ UNCHANGED << monitoring, signalled, isConnected, localMode, localStorage,
                    remote, writes, reads, syncs, budget, lastSet, lastGet, rt,
                    offline, lastSync >>
    /\ UNCHANGED << subVars, busVars >>
    /\ UNCHANGED stateVars

-----------------------------------------------------------------------------
(* LotteryStateManager: the operations *)

\* The arguments of updateState in this model.
Partials ==
    { [status |-> "rolling", currentPrize |-> Prize(1)],
      [currentWinner |-> Employee(1)],
      [status |-> "showing", currentWinner |-> Employee(2)] }

\* A state saved by an earlier page.
SavedState == Spread(DefaultState, [status |-> "rolling", currentPrize |-> Prize(2)])

\* The data of a STATE_CHANGED event (LotteryEvents.updateState).
StateChanged(st) == [state |-> st, timestamp |-> now]

\* window.initLotteryEvents(firebaseCore): new LotteryEvents, then
\* new LotteryStateManager, whose init() runs up to the return or the await
\* of getData('lotteryState').
InitLotteryEvents ==
    /\ ~busCreated
    /\ ~smCreated
    /\ nOps < budget
    /\ nOps' = nOps + 1
    /\ busCreated' = TRUE
    /\ startListening
    /\ smCreated' = TRUE
    /\ state' = DefaultState
    /\ IF UseCloud(isConnected, localMode)
       THEN /\ reads' = Append(reads, [id |-> nOps + 1, path |-> <<"lotteryState">>])
            /\ hydrating' = [id |-> nOps + 1, returned |-> FALSE, ret |-> Null,
                             attempted |-> TRUE]
            /\ UNCHANGED << localStorage, lastGet >>
       ELSE LET res == getDataResult(localStorage, <<"lotteryState">>, FALSE, FALSE, None)
            IN /\ reads' = reads
               /\ localStorage' = res.ls
               /\ lastGet' = GetRecord(<<"lotteryState">>, FALSE, FALSE, None, res)
               /\ hydrating' = [id |-> nOps + 1, returned |-> TRUE, ret |-> res.ret,
                                attempted |-> FALSE]
    /\ UNCHANGED << monitoring, signalled, isConnected, localMode, remote, writes,
                    syncs, budget, lastSet, rt, offline, lastSync >>
    /\ UNCHANGED << now, lastEventId, eventHandlers, usedIds, dispatched, invoked,
                    delivered, updates, lastUpdate, lastHydrate, published, lastOther, extraVars >>

\* init() resumes with the saved state: it merges a truthy one into the state
\* and registers the STATE_CHANGED handler.
HydrateDone ==
    /\ hydrating # None
    /\ hydrating.returned
    /\ state' = IF Truthy(hydrating.ret) THEN Spread(state, hydrating.ret) ELSE state
    /\ eventHandlers' = ("STATE_CHANGED" :>
                            Append(HandlersOf("STATE_CHANGED"), StateHandler))
                        @@ eventHandlers
    /\ hydrating' = None
    /\ lastHydrate' = [saved |-> hydrating.ret, attempted |-> hydrating.attempted,
                       before |-> state, after |-> state', upd |-> lastUpdate]
    /\ UNCHANGED << coreVars, subVars, now, busCreated, isListening, eventListenerId,
                    lastEventId, usedIds, dispatched, invoked, delivered,
                    smCreated, updates, lastUpdate, published, lastOther, raised,
                    subHist, bridgeVars >>
    /\ busCleaned' = FALSE

\* A call of updateState(newState) made by the client's operation op with
\* argument arg: up to the await of setData.
LocalUpdate(newState, op, arg) ==
    /\ smCreated
    /\ nOps < budget
    /\ nOps' = nOps + 1
    /\ LET res == updateState(state, updates, localStorage, writes, lastSet,
                              UseCloud(isConnected, localMode), newState, TRUE,
                              nOps + 1)
       IN /\ state' = res.state
          /\ updates' = res.updates
          /\ localStorage' = res.ls
          /\ writes' = res.writes
          /\ lastSet' = res.last
          /\ lastUpdate' = [res.upd EXCEPT !.op = op, !.arg = arg]
          /\ offline' = IF isConnected THEN offline
                        ELSE (<<"lotteryState">> :> res.state) @@ offline
    /\ published' = [published EXCEPT !.calls = @ + 1]
    /\ rt' = RtAfterTouch(rt, <<"lotteryState">>)
    /\ UNCHANGED << monitoring, signalled, isConnected, localMode, remote, reads,
                    syncs, budget, lastGet, lastSync >>
    /\ UNCHANGED << subVars, now, busVars, smCreated, hydrating, lastHydrate,
                    lastOther, extraVars >>

\* The client calls updateState(newState).
UpdateStateCall(newState) == LocalUpdate(newState, "updateState", None)

\* The argument startLottery(prize) gives updateState.
startLottery(prize) ==
    [status |-> "rolling", currentPrize |-> prize, currentWinner |-> Null]

\* Faulty variant of showWinner: the new record replaces the winners.
showWinnerReplace(st, winner) ==
    [status |-> "showing", currentWinner |-> winner,
     winners |-> << Spread(winner, [prize |-> st.currentPrize]) >>]

\* The argument showWinner(winner) gives updateState in state st:
\* newWinners = [...this.state.winners, { ...winner, prize: currentPrize }].
showWinner(st, winner) ==
    [status |-> "showing", currentWinner |-> winner,
     winners |-> Append(st.winners, Spread(winner, [prize |-> st.currentPrize]))]

\* The argument completePrize() gives updateState in state st.
completePrize(st) ==
    [status |-> "finished",
     completedPrizes |-> Append(st.completedPrizes, st.currentPrize)]

\* Faulty variant of resetLottery: the status is left as it is.
resetLotteryKeepStatus ==
    [currentPrize |-> Null, currentWinner |-> Null]

\* The argument of resetLottery().
resetLottery ==
    [status |-> "waiting", currentPrize |-> Null, currentWinner |-> Null]

\* The argument of clearAllData().
clearAllData ==
    [status |-> "waiting", currentPrize |-> Null, currentWinner |-> Null,
     winners |-> <<>>, completedPrizes |-> <<>>]

\* The state of another client that has called startLottery(p3) in the
\* default state.
OtherState == Spread(DefaultState, startLottery(Prize(3)))

\* null in the winners or completedPrizes field.  A record cannot be compared
\* with a sequence, so null is written there as this sequence, which no array
\* of the model equals.
NullArray == << [k |-> "null in place of an array"] >>

\* [...v] evaluates: v is an array.  Spreading null throws a TypeError.
Iterable(v) == v # NullArray

\* An updateState argument that replaces both arrays by null.
NullArrays == [winners |-> NullArray, completedPrizes |-> NullArray]

\* An async operation throws before its first await: the promise it returns
\* is rejected, and nothing else has changed.
Rejected(op) ==
    /\ smCreated
    /\ nOps < budget
    /\ nOps' = nOps + 1
    /\ raised' = raised \cup {op}
    /\ UNCHANGED << monitoring, signalled, isConnected, localMode, localStorage,
                    remote, writes, reads, syncs, budget, lastSet, lastGet, rt,
                    offline, lastSync >>
    /\ UNCHANGED << subVars, now, busVars, smVars, subHist, busCleaned, bridgeVars >>

\* The client calls one of the convenience operations.
StartLottery(prize) == LocalUpdate(startLottery(prize), "startLottery", prize)
ShowWinner(winner) ==
    IF Iterable(state.winners)
    THEN LocalUpdate(showWinner(state, winner), "showWinner", winner)
    ELSE Rejected("showWinner")
CompletePrize ==
    IF Iterable(state.completedPrizes)
    THEN LocalUpdate(completePrize(state), "completePrize", None)
    ELSE Rejected("completePrize")
ResetLottery == LocalUpdate(resetLottery, "resetLottery", None)
ClearAllData == LocalUpdate(clearAllData, "clearAllData", None)

\* A suspended updateState resumes after its setData has returned: it
\* broadcasts the state as it is now (up to the return or the await of the
\* event's setData, with random id suffix r), unless it was called by the
\* STATE_CHANGED handler.
UpdateStateResume(k, r) ==
    /\ k \in 1..Len(updates)
    /\ \A j \in 1..Len(writes) : writes[j].id # updates[k].id
    /\ updates' = RemoveAt(updates, k)
    /\ IF updates[k].broadcast
       THEN LET event == Event("STATE_CHANGED", StateChanged(state), now, r)
                res == setData(localStorage, writes, lastSet,
                               UseCloud(isConnected, localMode),
                               <<"events", event.id>>, event, nOps + 1)
            IN /\ event.id \notin usedIds
               /\ usedIds' = usedIds \cup {event.id}
               /\ published' = [published EXCEPT
                                   !.last = [saved |-> updates[k].saved,
                                             sent |-> event.data.state,
                                             passed |-> state],
                                   !.ids = Append(@, event.id),
                                   !.cloud = IF UseCloud(isConnected, localMode)
                                             THEN @ \cup {event.id} ELSE @]
               /\ nOps' = nOps + 1
               /\ budget' = budget + 1
               /\ localStorage' = res.ls
               /\ writes' = res.writes
               /\ lastSet' = res.last
               /\ offline' = IF isConnected THEN offline
                             ELSE (<<"events", event.id>> :> event) @@ offline
       ELSE UNCHANGED << usedIds, nOps, budget, localStorage, writes, lastSet, offline,
                         published >>
    /\ UNCHANGED << monitoring, signalled, isConnected, localMode, remote, reads,
                    syncs, lastGet, rt, lastSync >>
    /\ UNCHANGED << subVars, now, busCreated, isListening, eventListenerId,
                    lastEventId, eventHandlers, dispatched, invoked, delivered,
                    smCreated, state, hydrating, lastUpdate, lastHydrate,
                    lastOther, extraVars >>

\* Another client updates its state to st: its writes of 'lotteryState' and
\* of the STATE_CHANGED event reach the database.  The history keeps whether
\* this client was then connected, subscribed to the events, and had its
\* STATE_CHANGED handler registered.
OtherClientUpdate(st, r) ==
    /\ nOps < budget
    /\ nOps' = nOps + 1
    /\ LET event == Event("STATE_CHANGED", StateChanged(st), now, r)
       IN /\ event.id \notin usedIds
          /\ usedIds' = usedIds \cup {event.id}
          /\ remote' = dbSet(dbSet(remote, <<"lotteryState">>, st),
                             <<"events", event.id>>, event)
          /\ lastOther' = [id |-> event.id, state |-> st,
                           connected |-> isConnected,
                           subscribed |-> isListening,
                           registered |-> StateHandler \in
                                            Range(HandlersOf("STATE_CHANGED"))]
    /\ rt' = RtAfterTouch(rt, <<"lotteryState">>)
    /\ UNCHANGED << monitoring, signalled, isConnected, localMode, localStorage,
                    writes, reads, syncs, budget, lastSet, lastGet, offline,
                    lastSync >>
    /\ UNCHANGED << subVars, now, busCreated, isListening, eventListenerId,
                    lastEventId, eventHandlers, dispatched, invoked, delivered >>
    /\ UNCHANGED << smCreated, state, updates, hydrating, lastUpdate, lastHydrate,
                    published, extraVars >>

-----------------------------------------------------------------------------
(* Specifications *)

\* The adapter after  new FirebaseCore(config): init() has run to its end,
\* with or without an exception from firebase.initializeApp / database().
FirebaseCoreInit(initOk) ==
    /\ monitoring = initOk
    /\ signalled = FALSE
    /\ isConnected = FALSE
    /\ localMode = ~initOk
    /\ listeners = <<>>

\* The adapter after a successful init() and a first '.info/connected'
\* signal that reported connected, with nothing to resynchronise.
FirebaseCoreSignalled(connected) ==
    /\ monitoring = TRUE
    /\ signalled = TRUE
    /\ isConnected = connected
    /\ localMode = localModeOnSignal(connected)
    /\ listeners = <<>>

\* Nothing is in flight and nothing has happened yet.
EnvInit ==
    /\ writes = <<>>
    /\ reads = <<>>
    /\ syncs = <<>>
    /\ subs = <<>>
    /\ now = 0
    /\ nOps = 0
    /\ lastSet = None
    /\ lastGet = None
    /\ rt = None
    /\ offline = <<>>
    /\ lastSync = None
    /\ dispatched = <<>>
    /\ invoked = <<>>
    /\ delivered = [fresh |-> {}, latest |-> {}, again |-> {}, stale |-> {},
                    within |-> {}]

\* No LotteryEvents has been constructed; the fields are those its
\* constructor sets.
LotteryEventsInit ==
    /\ busCreated = FALSE
    /\ isListening = FALSE
    /\ eventListenerId = NoId
    /\ lastEventId = NoId
    /\ eventHandlers = <<>>

\* No LotteryStateManager has been constructed.
LotteryStateManagerInit ==
    /\ smCreated = FALSE
    /\ state = DefaultState
    /\ updates = <<>>
    /\ hydrating = None
    /\ lastUpdate = None
    /\ lastHydrate = None
    /\ published = [calls |-> 0, ids |-> <<>>, cloud |-> {}, last |-> None]
    /\ lastOther = None
    /\ raised = {}
    /\ calls = {}
    /\ released = {}
    /\ cleaned = FALSE
    /\ busCleaned = FALSE
    /\ bridge = None
    /\ bridgeLog = None
    /\ rtdb = None

\* The adapter alone, used directly by a client, beside other clients.
AdapterInit ==
    /\ \E initOk \in BOOLEAN : FirebaseCoreInit(initOk)
    /\ localStorage = <<>>
    /\ remote = [key \in RemoteKeys |-> Null]
    /\ usedIds = {}
    /\ EnvInit
    /\ LotteryEventsInit
    /\ LotteryStateManagerInit
    /\ budget = MaxOps

AdapterNext ==
    \/ \E connected \in BOOLEAN, r \in Rands : ConnectedSignal(connected, r)
    \/ \E path \in AdapterPaths, data \in InputValues : SetDataCall(path, data)
    \/ \E k \in 1..Len(writes), ok \in BOOLEAN : SetDataDone(k, ok)
    \/ \E path \in AdapterPaths : GetDataCall(path)
    \/ \E k \in 1..Len(reads), ok \in BOOLEAN : GetDataDone(k, ok)
    \/ \E k \in 1..Len(syncs), ok \in BOOLEAN : SyncPushDone(k, ok)
    \/ \E path \in AdapterPaths, data \in OtherValues : OtherClientWrite(path, data)

AdapterSpec == AdapterInit /\ [][AdapterNext]_vars

\* The subscriptions of the adapter, used directly by a client with two
\* handlers, beside another client that writes and removes the value
\* subscribed to.  The cache may hold a value saved by an earlier page.
SubPaths == {<<"prizes">>}
SubValues == {Null, Doc(1)}
UnknownId == "prizes_unknown"

SubInit ==
    /\ \/ \E initOk \in BOOLEAN : FirebaseCoreInit(initOk)
       \/ FirebaseCoreSignalled(TRUE)
    /\ \E cached \in BOOLEAN :
          localStorage = IF cached THEN saveToLocal(<<>>, <<"prizes">>, Doc(2))
                         ELSE <<>>
    /\ remote = [key \in RemoteKeys |-> Null]
    /\ usedIds = {}
    /\ EnvInit
    /\ LotteryEventsInit
    /\ LotteryStateManagerInit
    /\ budget = MaxSubOps

SubNext ==
    \/ \E connected \in BOOLEAN : ConnectedSignal(connected, 1)
    \/ \E path \in SubPaths, cb \in Callbacks : OnDataChange(path, cb)
    \/ \E id \in DOMAIN listeners \cup released \cup {UnknownId} : OffDataChange(id)
    \/ Cleanup
    \/ \E path \in SubPaths, data \in SubValues : OtherClientWrite(path, data)
    \/ \E k \in 1..Len(syncs), ok \in BOOLEAN : SyncPushDone(k, ok)
    \/ \E h \in DOMAIN subs : CloudNotifyHandler(h)
    \/ \E h \in DOMAIN subs : LocalPollHandler(h)
    \/ Tick

SubSpec == SubInit /\ [][SubNext]_vars

\* An event broadcast shortly before the page was loaded.
EarlierEvent == Event("START_LOTTERY", Null, 0, 1)

\* The event bus on top of the adapter, beside other clients that broadcast.
\* localStorage outlives the page: the events collection may hold an event
\* that an earlier page of this browser has mirrored into the cache.
BusInit ==
    /\ \E initOk \in BOOLEAN : FirebaseCoreInit(initOk)
    /\ \E earlier \in BOOLEAN :
          LET coll == Coll(EarlierEvent.id :> EarlierEvent)
          IN /\ localStorage = IF earlier THEN saveToLocal(<<>>, <<"events">>, coll)
                                ELSE <<>>
             /\ remote = [key \in RemoteKeys |->
                             IF earlier /\ key = "events" THEN coll ELSE Null]
             /\ usedIds = IF earlier THEN {EarlierEvent.id} ELSE {}
    /\ EnvInit
    /\ LotteryEventsInit
    /\ LotteryStateManagerInit
    /\ budget = MaxBusOps

BusNext ==
    \/ \E connected \in BOOLEAN, r \in Rands : ConnectedSignal(connected, r)
    \/ NewLotteryEvents
    \/ StartListening
    \/ StopListening
    \/ \E type \in BusTypes, handler \in Handlers : On(type, handler)
    \/ \E type \in BusTypes, handler \in Handlers : Off(type, handler)
    \/ LotteryEventsCleanup
    \/ \E type \in BusTypes, r \in Rands : BroadcastEvent(type, r)
    \/ \E type \in BusTypes, r \in Rands : OtherClientEvent(type, r)
    \/ \E k \in 1..Len(writes), ok \in BOOLEAN : SetDataDone(k, ok)
    \/ \E h \in DOMAIN subs : CloudNotify(h)
    \/ \E h \in DOMAIN subs : LocalPoll(h)
    \/ Tick

BusSpec == BusInit /\ [][BusNext]_vars

\* The STATE_CHANGED event with which an earlier page published SavedState.
EarlierStateEvent ==
    Event("STATE_CHANGED", [state |-> SavedState, timestamp |-> 0], 0, MaxRand)

\* The page after  new FirebaseCore(config)  and the wait of initLotterySystem,
\* before initLotteryEvents, beside other clients: the first connectivity
\* signal may have arrived.  The cache and the database may hold the state an
\* earlier page has saved, and the event that published it.
StateInit ==
    /\ \/ \E initOk \in BOOLEAN : FirebaseCoreInit(initOk)
       \/ FirebaseCoreSignalled(TRUE)
    /\ \E saved \in BOOLEAN :
          LET coll == Coll(EarlierStateEvent.id :> EarlierStateEvent)
          IN /\ localStorage =
                   IF saved
                   THEN saveToLocal(saveToLocal(<<>>, <<"lotteryState">>, SavedState),
                                    <<"events">>, coll)
                   ELSE <<>>
             /\ remote = [key \in RemoteKeys |->
                             IF saved /\ key = "lotteryState" THEN SavedState
                             ELSE IF saved /\ key = "events" THEN coll
                             ELSE Null]
             /\ usedIds = IF saved THEN {EarlierStateEvent.id} ELSE {}
    /\ EnvInit
    /\ LotteryEventsInit
    /\ LotteryStateManagerInit
    /\ budget = MaxStateOps

\* The suffix of the next event id in the model of the state manager.
StateRands == {r \in 1..MaxRand : r = MaxRand - Cardinality(usedIds)}

\* A continuation of the state manager is ready to run: init() after its
\* getData has returned, or an updateState after its setData has returned.
\* A continuation runs as a microtask, before the next timer, notification
\* or call of the page.
Continuing ==
    \/ hydrating # None /\ hydrating.returned
    \/ \E k \in 1..Len(updates) : \A j \in 1..Len(writes) : writes[j].id # updates[k].id

\* The database answers the requests of this client in the order it made
\* them and accepts its writes; a read may fail.  (Writes that fail or are
\* overtaken are the subject of AdapterSpec.)
StateNext ==
    \/ HydrateDone
    \/ \E k \in 1..Len(updates), r \in StateRands : UpdateStateResume(k, r)
    \/ ~Continuing /\ \E connected \in BOOLEAN, r \in StateRands :
                          ConnectedSignal(connected, r)
    \/ ~Continuing /\ InitLotteryEvents
    \/ ~Continuing /\ \E newState \in Partials : UpdateStateCall(newState)
    \/ ~Continuing /\ \E r \in StateRands : OtherClientUpdate(OtherState, r)
    \/ ~Continuing /\ SetDataDone(1, TRUE)
    \/ ~Continuing /\ \E ok \in BOOLEAN : GetDataDone(1, ok)
    \/ ~Continuing /\ SyncPushDone(1, TRUE)
    \/ ~Continuing /\ \E h \in DOMAIN subs : CloudNotify(h)
    \/ ~Continuing /\ \E h \in DOMAIN subs : LocalPoll(h)

StateSpec == StateInit /\ [][StateNext]_vars

\* The state of another client that has called startLottery(p2) and then
\* showWinner(e2), starting from the default state.
OtherRolling == Spread(DefaultState, startLottery(Prize(2)))
OtherShowing == Spread(OtherRolling, showWinner(OtherRolling, Employee(2)))

\* The page that drives the lottery through the convenience operations, with
\* the database reachable, beside another client whose startLottery(p2) has
\* been saved.
OpsInit ==
    /\ FirebaseCoreSignalled(TRUE)
    /\ localStorage = saveToLocal(<<>>, <<"lotteryState">>, OtherRolling)
    /\ remote = [key \in RemoteKeys |->
                    IF key = "lotteryState" THEN OtherRolling ELSE Null]
    /\ usedIds = {}
    /\ EnvInit
    /\ LotteryEventsInit
    /\ LotteryStateManagerInit
    /\ budget = MaxLotteryOps

\* The suffix of the next event id in the model of the operations.
OpsRands == {r \in 1..(2 * MaxLotteryOps) : r = 2 * MaxLotteryOps - Cardinality(usedIds)}

OpsNext ==
    \/ HydrateDone
    \/ \E k \in 1..Len(updates), r \in OpsRands : UpdateStateResume(k, r)
    \/ ~Continuing /\ InitLotteryEvents
    \/ ~Continuing /\ StartLottery(Prize(1))
    \/ ~Continuing /\ ShowWinner(Employee(1))
    \/ ~Continuing /\ CompletePrize
    \/ ~Continuing /\ ResetLottery
    \/ ~Continuing /\ ClearAllData
    \/ ~Continuing /\ UpdateStateCall(NullArrays)
    \/ ~Continuing /\ \E r \in OpsRands : OtherClientUpdate(OtherShowing, r)
    \/ ~Continuing /\ SetDataDone(1, TRUE)
    \/ ~Continuing /\ GetDataDone(1, TRUE)
    \/ ~Continuing /\ \E h \in DOMAIN subs : CloudNotify(h)

OpsSpec == OpsInit /\ [][OpsNext]_vars

\* The suffix of the next event id in the model of the bridge, where the
\* clock stands still: of two events the later one sorts first.
BridgeMaxRand == 2 * MaxBridgeOps

\* A start command that a mobile page has sent just before this page loads.
EarlierCommand ==
    Event("START_LOTTERY", [prize |-> Prize(1), timestamp |-> 0], 0, BridgeMaxRand)

\* The page of the bridge before initLotterySystem(): the adapter as after
\* its constructor.  The database may hold an earlier command, which an
\* earlier page of this browser has mirrored into the cache.
BridgeInit ==
    /\ \/ \E initOk \in BOOLEAN : FirebaseCoreInit(initOk)
       \/ FirebaseCoreSignalled(TRUE)
    /\ \E earlier \in BOOLEAN :
          LET coll == Coll(EarlierCommand.id :> EarlierCommand)
          IN /\ localStorage = IF earlier THEN saveToLocal(<<>>, <<"events">>, coll)
                                ELSE <<>>
             /\ remote = [key \in RemoteKeys |->
                             IF earlier /\ key = "events" THEN coll ELSE Null]
             /\ usedIds = IF earlier THEN {EarlierCommand.id} ELSE {}
    /\ EnvInit
    /\ LotteryEventsInit
    /\ LotteryStateManagerInit
    /\ budget = MaxBridgeOps

\* The data of the commands of the other clients: those of startLottery,
\* stopLottery and resetLottery, and for START_LOTTERY also none
\* (broadcastEvent(type) with its default {}, which the database does not store).
OtherCommandData(type) ==
    {CommandData(type, Prize(1))}
    \cup (IF type = "START_LOTTERY" THEN {Null} ELSE {})

\* The suffix drawn is the greatest one below those drawn before.
BridgeRands == {r \in 1..BridgeMaxRand : r = BridgeMaxRand - Cardinality(usedIds)}

\* A continuation is ready to run on the page of the bridge.
BridgeContinuing ==
    \/ Continuing
    \/ /\ bridge # None
       /\ bridge.starting # 0
       /\ \A j \in 1..Len(writes) : writes[j].id # bridge.starting

\* The mobile page sends commands; the admin page receives those of another
\* client, runs the engine and monitors its state.
BridgeNext ==
    \/ HydrateDone
    \/ \E k \in 1..Len(updates), r \in BridgeRands : UpdateStateResume(k, r)
    \/ SendRemoteStartResume
    \/ ~BridgeContinuing /\ InitLotteryEvents
    \/ ~BridgeContinuing /\ \E pageType \in {"admin", "mobile"}, select \in BOOLEAN,
                               r \in BridgeRands :
                               /\ pageType = "mobile" => select
                               /\ SetupPage(pageType, select, r)
    \/ ~BridgeContinuing /\ \E intent \in {"start", "stop", "forceStop"},
                               r \in BridgeRands : SendRemote(intent, Prize(1), r)
    \/ ~BridgeContinuing /\ \E type \in BridgeTypes, r \in BridgeRands :
                               /\ bridge # None
                               /\ bridge.pageType = "admin"
                               /\ \E data \in OtherCommandData(type) :
                                     OtherClientBroadcast(type, data, r)
    \/ ~BridgeContinuing /\ \E h \in DOMAIN subs : BridgeNotify(h)
    \/ ~BridgeContinuing /\ \E h \in DOMAIN subs : BridgePoll(h)
    \/ ~BridgeContinuing /\ FlagTimeout
    \/ ~BridgeContinuing /\ LocalEngineWrite
    \/ ~BridgeContinuing /\ \E r \in BridgeRands : MonitorTick(r)
    \/ ~BridgeContinuing /\ \E connected \in BOOLEAN, r \in BridgeRands :
                               ConnectedSignal(connected, r)
    \/ ~BridgeContinuing /\ SetDataDone(1, TRUE)
    \/ ~BridgeContinuing /\ GetDataDone(1, TRUE)

BridgeSpec == BridgeInit /\ [][BridgeNext]_vars

\* The timers and the continuations of the page run: a pending timeout
\* fires, and a continuation that is ready is not postponed for ever.
BridgeLiveSpec ==
    /\ BridgeSpec
    /\ WF_vars(~BridgeContinuing /\ FlagTimeout)
    /\ WF_vars(HydrateDone)
    /\ WF_vars(\E k \in 1..Len(updates), r \in BridgeRands : UpdateStateResume(k, r))
    /\ WF_vars(SendRemoteStartResume)

-----------------------------------------------------------------------------
(* lottery_bridge_rtdb.js: the command bridge over the database *)

\* The node the mobile page writes its commands to and the admin page
\* subscribes to, and the name of the callback initAdmin subscribes with.
CommandPath == <<"remoteLotteryEvent">>
AdminCallback == "initAdmin"

\* The events the legacy mobile page passes to sendLotteryEvent.
LegacyEvents == {[k |-> "legacy", action |-> "start"],
                 [k |-> "legacy", action |-> "stop"]}

\* 'cmd_' + Date.now() + '_' + Math.random().toString(36).substr(2, 6)
CommandId(ms, r) == "cmd_" \o ToString(ms) \o "_" \o ToString(r)

\* The command object of the mobile sendLotteryEvent.
Command(event, ms, r) ==
    [k |-> "command", id |-> CommandId(ms, r), source |-> "mobile",
     event |-> event, timestamp |-> ms]

\* var lastCommandId = null: the empty text stands for null, which equals no id.
NullId == ""

\* dispatchStorageLike(key, valueObj): the item is written (and a storage
\* event dispatched to the legacy listeners of the page).
dispatchStorageLike(ls, key, valueObj) == (key :> JSONstringify(valueObj)) @@ ls

\* The random suffix of a command id in this model: one not drawn before.
RtdbRands == {Cardinality(usedIds) + 1}

\* A mobile page, connected, calls sendLotteryEvent(event): its setData
\* stores the command at remoteLotteryEvent.  (The legacy sendLotteryEvent it
\* calls next acts on the mobile page only.)
MobileSendLotteryEvent(event, r) ==
    /\ nOps < budget
    /\ nOps' = nOps + 1
    /\ LET command == Command(event, now, r)
       IN /\ command.id \notin usedIds
          /\ usedIds' = usedIds \cup {command.id}
          /\ remote' = dbSet(remote, CommandPath, command)
    /\ UNCHANGED << monitoring, signalled, isConnected, localMode, localStorage,
                    writes, reads, syncs, budget, lastSet, lastGet, rt, offline,
                    lastSync >>
    /\ UNCHANGED << subVars, now, busCreated, isListening, eventListenerId,
                    lastEventId, eventHandlers, dispatched, invoked, delivered >>
    /\ UNCHANGED stateVars

\* The callback initAdmin gives onDataChange, called with command: a is the
\* page's lastCommandId and the commands replayed so far, ls the localStorage.
adminOnCommand(a, ls, command) ==
    IF ~Truthy(command) THEN [rtdb |-> a, ls |-> ls]
    ELSE IF command.id = a.lastCommandId THEN [rtdb |-> a, ls |-> ls]
    ELSE IF command.source = "admin"
    THEN [rtdb |-> [a EXCEPT !.lastCommandId = command.id], ls |-> ls]
    ELSE [rtdb |-> [a EXCEPT !.lastCommandId = command.id,
                             !.replayed = Append(@, command)],
          ls |-> dispatchStorageLike(ls, "lotteryEvent", command.event)]

\* The commands replayed into the legacy flow so far, by all the admin pages
\* this browser has loaded.
Replayed == IF rtdb = None THEN <<>> ELSE rtdb.replayed

\* lotteryBridge.init('admin') on a page that has not subscribed yet:
\* initAdmin sets lastCommandId to null and subscribes.
InitAdmin ==
    /\ IF rtdb = None THEN TRUE ELSE ~rtdb.listening
    /\ nOps < budget
    /\ nOps' = nOps + 1
    /\ LET res == onDataChange(listeners, subs, UseCloud(isConnected, localMode),
                               CommandPath, AdminCallback, now, nOps + 1)
       IN /\ listeners' = res.listeners
          /\ subs' = res.subs
    /\ rtdb' = [listening |-> TRUE, lastCommandId |-> NullId, replayed |-> Replayed]
    /\ UNCHANGED << monitoring, signalled, isConnected, localMode, localStorage,
                    remote, writes, reads, syncs, budget, lastSet, lastGet, rt,
                    offline, lastSync >>
    /\ UNCHANGED << now, busVars, smVars, raised, subHist, busCleaned, bridge,
                    bridgeLog >>

\* The database notifies the listener of the admin subscription of the
\* current value of the node: when the listener is attached, on a change,
\* and possibly once more with the same value.  The callback runs, then the
\* value is mirrored into the cache.
AdminNotify(h) ==
    /\ h \in DOMAIN subs
    /\ subs[h].type = "cloud"
    /\ subs[h].cb = AdminCallback
    /\ isConnected
    /\ LET data == dbGet(remote, subs[h].path)
           res == adminOnCommand(rtdb, localStorage, data)
       IN /\ subs' = [subs EXCEPT ![h].seen = data]
          /\ rtdb' = res.rtdb
          /\ localStorage' = mirror(res.ls, subs[h].path, data)
    /\ UNCHANGED << monitoring, signalled, isConnected, localMode, remote, writes,
                    reads, syncs, nOps, budget, lastSet, lastGet, rt, offline,
                    lastSync >>
    /\ UNCHANGED << listeners, now, busVars, smVars, raised, subHist, busCleaned,
                    bridge, bridgeLog >>

\* The poll timer of the admin subscription fires, every second: the
\* callback is called with the cached value of the node.
AdminPoll(h) ==
    /\ h \in DOMAIN subs
    /\ subs[h].type = "local"
    /\ subs[h].cb = AdminCallback
    /\ LET res == adminOnCommand(rtdb, localStorage,
                                 loadFromLocal(localStorage, subs[h].path))
       IN /\ rtdb' = res.rtdb
          /\ localStorage' = res.ls
    /\ UNCHANGED << monitoring, signalled, isConnected, localMode, remote, writes,
                    reads, syncs, nOps, budget, lastSet, lastGet, rt, offline,
                    lastSync >>
    /\ UNCHANGED << subVars, now, busVars, smVars, raised, subHist, busCleaned,
                    bridge, bridgeLog >>

\* The admin page is loaded again: a new FirebaseCore whose init() succeeds
\* or not, no listener, and initAdmin yet to run.  localStorage and the
\* database outlive the page.
ReloadAdmin(initOk) ==
    /\ rtdb # None
    /\ rtdb.listening
    /\ nOps < budget
    /\ nOps' = nOps + 1
    /\ monitoring' = initOk
    /\ signalled' = FALSE
    /\ isConnected' = FALSE
    /\ localMode' = ~initOk
    /\ listeners' = <<>>
    /\ subs' = <<>>
    /\ rtdb' = [rtdb EXCEPT !.listening = FALSE, !.lastCommandId = NullId]
    /\ UNCHANGED << localStorage, remote, writes, reads, syncs, budget, lastSet,
                    lastGet, rt, offline, lastSync >>
    /\ UNCHANGED << now, busVars, smVars, raised, subHist, busCleaned, bridge,
                    bridgeLog >>

\* The admin page of the command bridge, beside a mobile page that sends
\* commands.  No command has been sent yet.
RtdbInit ==
    /\ \/ \E initOk \in BOOLEAN : FirebaseCoreInit(initOk)
       \/ FirebaseCoreSignalled(TRUE)
    /\ localStorage = <<>>
    /\ remote = [key \in RemoteKeys |-> Null]
    /\ usedIds = {}
    /\ EnvInit
    /\ LotteryEventsInit
    /\ LotteryStateManagerInit
    /\ budget = MaxRtdbOps

RtdbNext ==
    \/ \E connected \in BOOLEAN : ConnectedSignal(connected, 1)
    \/ \E event \in LegacyEvents, r \in RtdbRands : MobileSendLotteryEvent(event, r)
    \/ InitAdmin
    \/ \E h \in DOMAIN subs : AdminNotify(h)
    \/ \E h \in DOMAIN subs : AdminPoll(h)
    \/ \E initOk \in BOOLEAN : ReloadAdmin(initOk)
    \/ Tick

RtdbSpec == RtdbInit /\ [][RtdbNext]_vars

-----------------------------------------------------------------------------
(* Properties of the adapter *)

\* The value a localStorage item reads back as (null when there is no item).
CacheValue(text) == IF text = None THEN Null ELSE JSONparse(text)

\* C1: after setData(p, v) the local cache entry of p holds v, whatever the
\* connectivity and the outcome of the remote write: the entry holds v while
\* the remote write is outstanding (the local write comes first), it holds v
\* when setData returns, and after a failed remote write it holds v even if
\* another operation had overwritten it in between (no rollback).  "Holds v
\* at return" is stated for calls whose cache entry no other operation wrote
\* while they were suspended.
C1_LocalCacheHoldsValue ==
    /\ \A j \in 1..Len(writes) :
          writes[j].quiet =>
             CacheText(localStorage, writes[j].path) = JSONstringify(writes[j].data)
    /\ lastSet # None =>
          /\ lastSet.quiet => lastSet.cache = JSONstringify(lastSet.data)
          /\ lastSet.attempted /\ ~lastSet.ret =>
                lastSet.cache = JSONstringify(lastSet.data)

\* C1 witness: a setData whose remote write was attempted and failed has
\* returned, and the cache holds its value.
C1_Witness ==
    /\ lastSet # None
    /\ lastSet.attempted
    /\ ~lastSet.ret
    /\ lastSet.cache = JSONstringify(lastSet.data)

\* C2 (as claimed): setData returns true only when the value was written to
\* the remote store, in every connectivity state.
C2_TrueMeansDelivered ==
    lastSet # None /\ lastSet.ret => lastSet.attempted /\ lastSet.stored = lastSet.data

\* C2 (amended): setData always returns; it returns false exactly when an
\* attempted remote write failed; a true result of a call that attempted the
\* remote write means the remote store holds the value; a call made while
\* disconnected or in local mode attempts nothing and returns true.
C2_ReturnValue ==
    lastSet # None =>
       /\ lastSet.ret \in BOOLEAN
       /\ ~lastSet.attempted => lastSet.ret
       /\ lastSet.attempted /\ lastSet.ret => lastSet.stored = lastSet.data
       /\ ~lastSet.ret => lastSet.attempted /\ lastSet.cache = JSONstringify(lastSet.data)

\* C2 witness: a setData made while disconnected returned true although the
\* remote store does not hold its value.
C2_Witness ==
    /\ lastSet # None
    /\ ~lastSet.attempted
    /\ lastSet.ret
    /\ lastSet.stored # lastSet.data

\* C3 (as claimed): a successful remote read returns the remote value and
\* leaves it in the cache; otherwise getData returns the cached value or null.
C3_RemoteFirst ==
    lastGet # None =>
       IF lastGet.attempted /\ lastGet.ok
       THEN /\ lastGet.ret = lastGet.remoteVal
            /\ CacheValue(lastGet.cacheAfter) = lastGet.ret
       ELSE lastGet.ret = CacheValue(lastGet.cacheBefore)

\* C3 (amended): a successful remote read of a non-null value returns that
\* value and leaves it in the cache; when the remote value is null (nothing
\* stored at p), when the read fails or when the client is disconnected,
\* getData returns the cached value, or null if the cache has no entry, and
\* leaves the cache as it was.
C3_RemoteFirstUnlessNull ==
    lastGet # None =>
       IF lastGet.attempted /\ lastGet.ok /\ lastGet.remoteVal # Null
       THEN /\ lastGet.ret = lastGet.remoteVal
            /\ lastGet.cacheAfter = JSONstringify(lastGet.ret)
       ELSE /\ lastGet.ret = CacheValue(lastGet.cacheBefore)
            /\ lastGet.cacheAfter = lastGet.cacheBefore

\* C3 witness: a successful remote read found null where the cache held a
\* value, and getData returned the cached value.
C3_Witness ==
    /\ lastGet # None
    /\ lastGet.attempted
    /\ lastGet.ok
    /\ lastGet.remoteVal = Null
    /\ lastGet.cacheBefore # None
    /\ lastGet.ret = JSONparse(lastGet.cacheBefore)
    /\ lastGet.ret # Null

\* C4: setData(p, v) followed by getData(p), with no connectivity change and
\* no other write to p in between, returns v.
C4_RoundTrip ==
    rt # None /\ rt.stage = "done" => rt.got = rt.data

\* C5: when the resync triggered by a reconnect has run to its end, the remote
\* store holds, at every path written with setData while disconnected, the
\* last value so written.
C5_OfflineWritesResynced ==
    lastSync # None =>
       \A p \in DOMAIN lastSync.want : lastSync.got[p] = lastSync.want[p]

\* C6: isConnected == false implies localMode == true, from construction on.
C6_DisconnectedImpliesLocalMode == ~isConnected => localMode

\* C7: localMode changes from true to false only when the resync push has
\* completed: no push of the resync is outstanding when it becomes false.
C7_LocalModeClearedAfterResync ==
    [][(localMode /\ ~localMode') => syncs' = <<>>]_vars

-----------------------------------------------------------------------------
(* Properties of the event bus *)

\* The number of times handleIncomingEvent has let the event id through.
Dispatches(id) == Cardinality({i \in 1..Len(dispatched) : dispatched[i] = id})

\* C8 (as claimed): every event id that a notification has shown to the
\* listening subscriber within the freshness window has been dispatched
\* exactly once.
C8_EveryFreshIdOnce ==
    \A id \in delivered.fresh : Dispatches(id) = 1

\* C8 (amended): of the events a notification shows, only the latest one is
\* considered: an id that was the latest event of a notification within the
\* freshness window has been dispatched exactly once, however often it was
\* redelivered, and no id is dispatched twice; the other events of the
\* notification may never be dispatched.
C8_LatestFreshIdOnce ==
    /\ \A id \in delivered.latest : Dispatches(id) = 1
    /\ \A id \in usedIds : Dispatches(id) <= 1

\* C8 witness: an id was redelivered as the latest event within the window
\* and has been dispatched once, and another id shown within the window was
\* skipped.
C8_Witness ==
    /\ \E id \in delivered.again : Dispatches(id) = 1
    /\ \E id \in delivered.fresh : Dispatches(id) = 0

\* C9: no handler is invoked with an event older than the freshness window,
\* on push notifications and on polling ticks alike.
C9_NoStaleDispatch ==
    \A i \in 1..Len(invoked) : invoked[i].age <= FreshMs

\* C9 witness: a notification showed, as its latest event, an event older
\* than the window whose type had a handler (registered after the event was
\* stored), and no handler was invoked with it.
C9_Witness ==
    \E id \in delivered.stale :
        /\ id = EarlierEvent.id
        /\ \A i \in 1..Len(invoked) : invoked[i].id # id

-----------------------------------------------------------------------------
(* Properties of the state manager *)

\* C10: updateState(partial) leaves the state equal to the shallow merge of
\* partial over the previous state: every key of partial takes partial's
\* value, every other key keeps its value; and updateState({status:
\* 'rolling', currentPrize: P}) followed by updateState({currentWinner: W})
\* yields status 'rolling', currentPrize P and currentWinner W.
C10_ShallowMerge ==
    lastUpdate # None =>
       LET u == lastUpdate
       IN /\ DOMAIN u.after = DOMAIN u.before \cup DOMAIN u.partial
          /\ \A f \in DOMAIN u.partial : u.after[f] = u.partial[f]
          /\ \A f \in DOMAIN u.before \ DOMAIN u.partial : u.after[f] = u.before[f]
          /\ (/\ u.prev = [status |-> "rolling", currentPrize |-> Prize(1)]
              /\ u.partial = [currentWinner |-> Employee(1)])
             => /\ u.after.status = "rolling"
                /\ u.after.currentPrize = Prize(1)
                /\ u.after.currentWinner = Employee(1)

\* C10 witness: the two calls of the example have been made one after the
\* other, and the state is the merge of both.
C10_Witness ==
    /\ lastUpdate # None
    /\ lastUpdate.prev = [status |-> "rolling", currentPrize |-> Prize(1)]
    /\ lastUpdate.partial = [currentWinner |-> Employee(1)]
    /\ state.status = "rolling"
    /\ state.currentPrize = Prize(1)
    /\ state.currentWinner = Employee(1)

\* The STATE_CHANGED events of this client that have reached the database.
OwnStored ==
    {i \in 1..Len(published.ids) : published.ids[i] \in DOMAIN Items(remote["events"])}

\* The suspended updateState calls that will broadcast when they resume.
Broadcasting == {k \in 1..Len(updates) : updates[k].broadcast}

C12_EchoIsIdempotent ==
    (/\ lastHydrate # None
     /\ lastHydrate.upd = None
     /\ Cardinality(usedIds) = Len(published.ids)
     /\ lastUpdate # None
     /\ lastUpdate.op = StateHandler
     /\ \E i \in 1..Len(published.ids) : published.ids[i] = lastUpdate.event)
    => /\ lastUpdate.after.status = lastUpdate.before.status
       /\ \A f \in {"currentPrize", "currentWinner"} :
             lastUpdate.partial[f] # Null
             => lastUpdate.after[f] = lastUpdate.before[f]

\* C13: an update made after construction and before the hydration read
\* (a remote read) completes is not overwritten by the hydration: the keys it
\* set keep its values.
C13_HydrationKeepsUpdates ==
    (/\ lastHydrate # None
     /\ lastHydrate.attempted
     /\ lastHydrate.upd # None)
    => \A f \in DOMAIN lastHydrate.upd.partial :
          lastHydrate.after[f] = lastHydrate.upd.partial[f]

-----------------------------------------------------------------------------
(* Properties of the convenience operations *)

IsPrefix(s, t) == Len(s) <= Len(t) /\ SubSeq(t, 1, Len(s)) = s

\* C14: except for clearAllData, every updateState call (of an operation of
\* the client or of the STATE_CHANGED handler) leaves the winners it found as
\* a prefix of the winners it leaves.
C14_WinnersOnlyGrow ==
    (lastUpdate # None /\ lastUpdate.op # "clearAllData")
    => IsPrefix(lastUpdate.before.winners, lastUpdate.after.winners)

\* C15: in every state of the client (reached through the convenience
\* operations, the hydration and the merging of STATE_CHANGED events), status
\* rolling comes with a current prize and status showing with a current
\* winner.
C15_StatusImpliesFields ==
    /\ state.status = "rolling" => state.currentPrize # Null
    /\ state.status = "showing" => state.currentWinner # Null

\* C15 witness: after a hydration with a saved state and an operation of the
\* client, the handler has merged a STATE_CHANGED event and the state is
\* showing a winner.
C15_Witness ==
    /\ lastHydrate # None
    /\ Truthy(lastHydrate.saved)
    /\ published.calls > 0
    /\ lastUpdate # None
    /\ lastUpdate.op = StateHandler
    /\ state.status = "showing"
    /\ state.currentWinner # Null

\* C18: the state right after each convenience operation is the state
\* before it with exactly the named fields changed.
C18_OperationEffects ==
    lastUpdate # None =>
        LET b == lastUpdate.before
            a == lastUpdate.after
            arg == lastUpdate.arg
        IN /\ lastUpdate.op = "startLottery" =>
                 a = [b EXCEPT !.status = "rolling", !.currentPrize = arg,
                               !.currentWinner = Null]
           /\ lastUpdate.op = "showWinner" =>
                 a = [b EXCEPT !.status = "showing", !.currentWinner = arg,
                               !.winners = Append(b.winners,
                                                  [k |-> arg.k, n |-> arg.n,
                                                   prize |-> b.currentPrize])]
           /\ lastUpdate.op = "completePrize" =>
                 a = [b EXCEPT !.status = "finished",
                               !.completedPrizes = Append(b.completedPrizes,
                                                          b.currentPrize)]
           /\ lastUpdate.op = "resetLottery" =>
                 a = [b EXCEPT !.status = "waiting", !.currentPrize = Null,
                               !.currentWinner = Null]
           /\ lastUpdate.op = "clearAllData" =>
                 a = [b EXCEPT !.status = "waiting", !.currentPrize = Null,
                               !.currentWinner = Null, !.winners = <<>>,
                               !.completedPrizes = <<>>]

\* C18 witness: showWinner has been called with a prize current and a winner
\* already recorded.
C18_Witness ==
    /\ lastUpdate # None
    /\ lastUpdate.op = "showWinner"
    /\ lastUpdate.before.currentPrize # Null
    /\ Len(lastUpdate.before.winners) > 0
    /\ Len(lastUpdate.after.winners) = Len(lastUpdate.before.winners) + 1

-----------------------------------------------------------------------------
(* Properties of the clients together *)

\* The poll of local subscription h would dispatch nothing.
PollIdle(h) ==
    onEvent(loadFromLocal(localStorage, subs[h].path), localStorage, writes,
            lastSet, nOps + 1).lastEventId = lastEventId

\* The client is constructed and connected and has nothing left to do until
\* somebody makes another call: no request is outstanding, no call is
\* suspended, every database listener has been notified of the current
\* value, and the polls dispatch nothing.
Quiet ==
    /\ smCreated
    /\ hydrating = None
    /\ isConnected
    /\ ~localMode
    /\ writes = <<>>
    /\ reads = <<>>
    /\ syncs = <<>>
    /\ updates = <<>>
    /\ \A h \in DOMAIN subs :
          IF subs[h].type = "cloud"
          THEN subs[h].seen = dbGet(remote, subs[h].path)
          ELSE PollIdle(h)

\* C16: once the client is connected and nothing is left to do, its state
\* equals the value of 'lotteryState' in the database (some client having
\* written one).
C16_QuietMeansEqual ==
    (Quiet /\ dbGet(remote, <<"lotteryState">>) # Null)
    => state = dbGet(remote, <<"lotteryState">>)

\* C17: when another client has called startLottery(p3) while this client
\* was connected, subscribed and had its handler registered, then once
\* nothing is left to do this client has dispatched the STATE_CHANGED event
\* to its handler within the freshness window, and the merge of the event
\* has left status rolling and the prize p3.
C17_SubscriberDispatches ==
    (/\ lastOther # None
     /\ lastOther.connected
     /\ lastOther.subscribed
     /\ lastOther.registered
     /\ Quiet)
    => /\ \E i \in 1..Len(invoked) :
             /\ invoked[i].id = lastOther.id
             /\ invoked[i].handler = StateHandler
             /\ invoked[i].age < FreshMs
       /\ (lastUpdate # None /\ lastUpdate.event = lastOther.id)
             => /\ lastUpdate.after.status = "rolling"
                /\ lastUpdate.after.currentPrize = Prize(3)

-----------------------------------------------------------------------------
(* Properties of the event bus: storage and handlers *)

\* C19: in every step the events stored in the database stay as they are
\* (none is overwritten, changed or deleted), and an event that enters the
\* collection is stored under its own id, which no earlier event had, with
\* a timestamp not in the future.  A step generates at most one id, and a
\* broadcast of this client leaves its event, stamped with the current
\* time, in the cache under events/<id> and, when the database is in use,
\* in a write to events/<id>.
C19_EventsAppendOnly ==
    [][LET old == Items(remote["events"])
           new == Items(remote'["events"])
           ids == usedIds' \ usedIds
       IN /\ \A id \in DOMAIN old : id \in DOMAIN new /\ new[id] = old[id]
          /\ \A id \in DOMAIN new \ DOMAIN old :
                /\ new[id].id = id
                /\ new[id].timestamp <= now
                /\ id \in usedIds'
          /\ Cardinality(ids) <= 1
          /\ \A id \in ids :
                remote' = remote =>
                   LET e == CacheValue(CacheText(localStorage', <<"events", id>>))
                   IN /\ e # Null
                      /\ e.id = id
                      /\ e.timestamp = now
                      /\ UseCloud(isConnected', localMode') =>
                            \E k \in 1..Len(writes') :
                               /\ writes'[k].path = <<"events", id>>
                               /\ writes'[k].data = e
    ]_vars

\* C19 witness: the collection holds an event of another client and, beside
\* it, an event this client has broadcast, stored under its id.
C19_Witness ==
    /\ lastSet # None
    /\ Len(lastSet.path) = 2
    /\ lastSet.path[1] = "events"
    /\ lastSet.attempted
    /\ lastSet.ret
    /\ lastSet.path[2] \in DOMAIN Items(remote["events"])
    /\ Items(remote["events"])[lastSet.path[2]] = lastSet.data
    /\ Cardinality(DOMAIN Items(remote["events"])) >= 3

\* C21: in a dispatch to handlers one of which throws (and none of which
\* removes a handler), every handler registered for the type is invoked, in
\* order, and no exception leaves the dispatch.
C21_ThrowingHandlerIsolated ==
    \A i \in 1..Len(invoked) :
        (Throwing \in Range(invoked[i].registered)
         /\ SelfRemoving \notin Range(invoked[i].registered))
        => LET recs == SelectSeq(invoked, LAMBDA r : r.n = invoked[i].n)
           IN /\ [j \in 1..Len(recs) |-> recs[j].handler] = invoked[i].registered
              /\ ~invoked[i].escaped

\* C21 witness: a dispatch has invoked the throwing handler and then h1,
\* registered after it.
C21_Witness ==
    \E i, j \in 1..Len(invoked) :
        /\ i < j
        /\ invoked[i].n = invoked[j].n
        /\ invoked[i].handler = Throwing
        /\ invoked[j].handler = "h1"
        /\ invoked[i].registered = << Throwing, "h1" >>

\* C20: a dispatch invokes the handlers that were registered for the type
\* of the event when it began, each once, in registration order.
C20_AllHandlersInOrder ==
    \A i \in 1..Len(invoked) :
        LET recs == SelectSeq(invoked, LAMBDA r : r.n = invoked[i].n)
        IN [j \in 1..Len(recs) |-> recs[j].handler] = invoked[i].registered

-----------------------------------------------------------------------------
(* Properties of the failure behaviour *)

\* C22: no operation of the event bus or of the state manager raises or
\* rejects to its caller, whatever the state, also when winners or
\* completedPrizes has been replaced by null through a merged update.
C22_NoOperationRejects == raised = {}

\* C23: broadcastEvent returns true exactly when the adapter's write of the
\* event succeeded (setData returned true), and false otherwise.
C23_ReturnsWriteResult ==
    (lastSet # None /\ lastSet.path[1] = "events")
    => (broadcastEvent(sendEvent(lastSet)) <=> lastSet.ret)

-----------------------------------------------------------------------------
(* Properties of the subscriptions *)

\* C24: once offDataChange(id) has been called with the id that onDataChange
\* returned for a subscription, the handler of that subscription is not
\* invoked again, also when two subscriptions were registered on the same
\* path at the same clock reading.
C24_NoCallAfterOff == \A c \in calls : ~c.off

\* C25: while connected, every value a push subscription delivers, null
\* included, is passed to the handler and mirrored into the local cache: when
\* the listener returns, the cache entry of the path equals the value.
C25_DeliveredValueMirrored ==
    \A c \in calls : c.source = "cloud" => c.mirrored

\* C27: after the adapter's cleanup() no handler of a subscription is called
\* and no connectivity change starts a resync push.
C27_NothingAfterCleanup ==
    [][cleaned => (calls' = calls /\ Len(syncs') <= Len(syncs))]_vars

-----------------------------------------------------------------------------
(* Properties of the clean-up of the event bus *)

\* C26: after the bus's cleanup() its events subscription is deregistered
\* and its handler map is empty, no handler registered before the cleanup
\* is invoked by a later notification or polling tick, and a second cleanup()
\* changes nothing.
C26_CleanupReleasesBus ==
    [][busCleaned' =>
         /\ eventHandlers' = <<>>
         /\ invoked' = invoked
         /\ ~isListening' => \A h \in DOMAIN subs' : subs'[h].cb # BusCallback
         /\ (busCleaned /\ ~isListening /\ ~isListening')
            => (subs' = subs /\ listeners' = listeners)]_vars

\* C26 witness: cleanup() has run on a bus of which a handler had been
\* invoked, and an event that was never dispatched exists.
C26_Witness ==
    /\ busCleaned
    /\ invoked # <<>>
    /\ subs = <<>>
    /\ \E id \in usedIds : /\ id \notin Range(dispatched)
                           /\ id # EarlierEvent.id

-----------------------------------------------------------------------------
(* Properties of the bridge *)

\* The commands the mobile page has issued and the hooks the admin page has
\* run for dispatched commands.
Sent == IF bridgeLog = None THEN {} ELSE Range(bridgeLog.sent)
Hooks == IF bridgeLog = None THEN {} ELSE Range(bridgeLog.hooks)
Published == IF bridgeLog = None THEN {} ELSE Range(bridgeLog.published)

\* C28: on the mobile page, a start, stop or force-stop command issued while
\* the database cannot be reached (initialisation failed, or connectivity was
\* lost afterwards) informs the operator that it cannot be delivered.
C28_UndeliverableCommandInformsOperator ==
    \A s \in Sent : ~s.cloud => s.informed

\* C29: every intent of the controller is broadcast as the event of its kind
\* (start as START_LOTTERY with the selected prize, stop as STOP_LOTTERY,
\* force-stop as RESET_LOTTERY), and on the admin page a dispatched command
\* of each of the three types runs exactly the hook of that type.
C29_CommandMappingPreservesType ==
    /\ \A s \in Sent :
          /\ s.intent = "start" => s.type = "START_LOTTERY" /\ s.data.prize = s.selected
          /\ s.intent = "stop" => s.type = "STOP_LOTTERY"
          /\ s.intent = "forceStop" => s.type = "RESET_LOTTERY"
    /\ \A h \in Hooks : h.hook = AdminHandler(h.type)

\* C30: the monitor of the admin page never publishes a state the engine has
\* written while executing a remote command, neither on a tick while
\* isRemoteCommand is set nor on a tick after the flag has been cleared.
C30_RemoteSideEffectNotPublished ==
    \A p \in Published : p.origin # "remote"

-----------------------------------------------------------------------------
(* Properties of the last sitting *)

\* C31: while the client is disconnected, getData(p) begins no remote read
\* and returns the cached value of p, leaving the cache as it is, whatever the
\* other clients have written; and the cached value of p changes only
\* to what a setData(p, ..) of this client has left there or to what a remote
\* read of p that it began while connected has brought.
C31_DisconnectedReadsCache ==
    [][(~isConnected /\ ~isConnected') =>
         /\ Len(reads') <= Len(reads)
         /\ (lastGet' # lastGet /\ ~lastGet'.attempted) =>
               /\ lastGet'.ret = loadFromLocal(localStorage, lastGet'.path)
               /\ localStorage' = localStorage
         /\ \A p \in AdapterPaths :
               CacheText(localStorage', p) # CacheText(localStorage, p) =>
                  \/ /\ lastSet' # None
                     /\ lastSet'.path = p
                     /\ CacheText(localStorage', p) = lastSet'.cache
                  \/ /\ lastGet' # None
                     /\ lastGet'.attempted
                     /\ lastGet'.path = p
                     /\ CacheText(localStorage', p) = lastGet'.cacheAfter]_vars

\* C31 witness: disconnected, getData(p) has returned the cached value while
\* the database holds another client's value at p.
C31_Witness ==
    /\ ~isConnected
    /\ lastGet # None
    /\ ~lastGet.attempted
    /\ lastGet.ret # Null
    /\ lastGet.ret = loadFromLocal(localStorage, lastGet.path)
    /\ dbGet(remote, lastGet.path) \in OtherValues

\* C32: on each notification the bus considers the stored event with the
\* greatest timestamp only, and dispatches it if and only if its id differs
\* from the last dispatched id and its age is at most 5000 ms: every id that
\* was the latest event of a notification at an age of at most 5000 ms has
\* been dispatched, only such ids are dispatched, and none twice in a row.
C32_DispatchRule ==
    /\ \A id \in delivered.within : Dispatches(id) >= 1
    /\ Range(dispatched) \subseteq delivered.within
    /\ \A i \in 1..(Len(dispatched) - 1) : dispatched[i] # dispatched[i + 1]

\* C33: an updateState(partial, true) call publishes in its STATE_CHANGED
\* event, and passes to the state callbacks, the full state its own merge
\* produced and its setData persisted, also when another updateState has run
\* while it was suspended at its store write.
C33_PublishesOwnMerge ==
    published.last # None =>
       /\ published.last.sent = published.last.saved
       /\ published.last.passed = published.last.saved

\* C34: the backend of a subscription follows the current connectivity, not
\* the connectivity at registration: while the cloud is in use every
\* subscription is served by a database listener (and so receives what other
\* clients write), and while it is not, every subscription is served by the
\* poll of the local cache.
C34_BackendFollowsConnectivity ==
    \A h \in DOMAIN subs :
        subs[h].type = IF UseCloud(isConnected, localMode) THEN "cloud" ELSE "local"

\* isRemoteCommand of the admin page (false before the bridge is set up).
FlagSet == IF bridge = None THEN FALSE ELSE bridge.isRemoteCommand

C36_CollectionHoldsChild ==
    (/\ lastSet # None
     /\ ~lastSet.attempted
     /\ Len(lastSet.path) = 2
     /\ lastSet.path[1] = "events")
    => LET events == Items(loadFromLocal(localStorage, <<"events">>))
       IN /\ lastSet.path[2] \in DOMAIN events
          /\ events[lastSet.path[2]] = lastSet.data

\* C37: a push of the resync replaces a value stored at a path only if this
\* client wrote that path with setData while it was disconnected.
C37_ResyncKeepsUnwrittenPaths ==
    [][(syncs' # syncs /\ remote' # remote) =>
         \A i \in 1..Len(SyncPaths) :
            (/\ dbGet(remote, SyncPaths[i]) # Null
             /\ dbGet(remote', SyncPaths[i]) # dbGet(remote, SyncPaths[i])) =>
               \E k \in 1..Len(syncs) :
                  /\ syncs[k].i = i
                  /\ SyncPaths[i] \in DOMAIN syncs[k].want]_vars

\* C38: each command a mobile sendLotteryEvent call has written to
\* remoteLotteryEvent is replayed into the legacy flow of the admin
\* (dispatchStorageLike on lotteryEvent) at most once: no command id occurs
\* twice among the replays, whether the subscription redelivers the value
\* (notification or polling tick) or an admin page subscribes later and
\* receives the stored command as its first value.
C38_CommandReplayedAtMostOnce ==
    \A i, j \in 1..Len(Replayed) :
        Replayed[i].id = Replayed[j].id => i = j

=============================================================================
